---- MODULE Spec2Model ----
(***************************************************************************)
(* bp2bst: the Blueprint (Android.bp) evaluator and cc_defaults resolver.  *)
(*                                                                         *)
(* Expressions are records tagged by t; a Python str is a TLA+ string      *)
(* (\o concatenates), a Python list a sequence, a Python dict, which keeps *)
(* insertion order, a sequence of Property records with distinct names.    *)
(***************************************************************************)
EXTENDS Integers, Sequences, FiniteSets, TLC

VARIABLES
    defaults_registry,  \* DefaultsResolver.defaults_registry: name -> Module
    module,             \* the argument of the resolve call in progress or last returned
    resolved,           \* what that resolve call returned (None before it returns)
    pc,                 \* position of the step-wise resolve call
    names_left,         \* resolve: the defaults_names the loop of line 42 has not reached
    stack,              \* the _collect_defaults frames, innermost last
    visited,            \* resolve's visited set
    all_defaults,       \* resolve's all_defaults list
    merge_left,         \* resolve: the all_defaults the loop of line 47 has not reached
    merged_props,       \* resolve's merged_props dict
    variables,          \* Evaluator.variables: identifier -> Expression (None: unbound)
    input,              \* the argument of the last evaluate call (None before it)
    evaluated,          \* what that call returned or raised
    reevaluated,        \* what evaluate returned for evaluated (None before it)
    target_arch,        \* Converter.target_arch
    bp_file,            \* the Android.bp file of the last convert_file call (None before it)
    output_prefix,      \* that call's output_prefix
    result,             \* the ConversionResult that call returned (None before it)
    written,            \* the files the last write_elements call wrote, in order
    source,             \* the text of the last Lexer or Parser (None before it)
    lexed,              \* what tokenize returned or raised for it
    parsed,             \* what Parser(source).parse() returned or raised (None: no call)
    heap,               \* the AST objects and their lists by address, in allocation order
    registry_at,        \* defaults_registry as the interpreter holds it: name -> address
    variables_at,       \* Evaluator.variables as the interpreter holds it: name -> address
    held,               \* the addresses of the modules the caller holds, oldest first
    original            \* address -> the structure its object had when it was first held

resolver_vars == <<defaults_registry, module, resolved>>
collect_vars == <<pc, names_left, stack, visited, all_defaults, merge_left, merged_props>>
eval_vars == <<variables, input, evaluated, reevaluated>>
parser_vars == <<source, lexed, parsed>>
heap_vars == <<heap, registry_at, variables_at, held, original>>
conv_vars == <<target_arch, bp_file, output_prefix, result, written, source, lexed, parsed>>
vars == <<defaults_registry, module, resolved, pc, names_left, stack, visited, all_defaults,
          merge_left, merged_props, variables, input, evaluated, reevaluated,
          target_arch, bp_file, output_prefix, result, written, source, lexed, parsed,
          heap, registry_at, variables_at, held, original>>

-----------------------------------------------------------------------------
(* ast.py *)

None == [t |-> "None"]

StringExpr(s) == [t |-> "String", value |-> s]

BoolExpr(b) == [t |-> "Bool", bval |-> b]

IntExpr(n) == [t |-> "Int", ival |-> n]

ListExpr(vs) == [t |-> "List", values |-> vs]

MapExpr(ps) == [t |-> "Map", properties |-> ps]

VariableRef(n) == [t |-> "VariableRef", name |-> n]

OperatorExpr(l, o, r) == [t |-> "Operator", left |-> l, op |-> o, right |-> r]

SelectExpr(f, args, cs) == [t |-> "Select", func_name |-> f, func_args |-> args, cases |-> cs]

Property(n, v) == [name |-> n, value |-> v]

Module(ty, ps) == [type |-> ty, properties |-> ps]

\* The positions of the properties called n, in list order.
PropIndices(ps, n) == {i \in 1..Len(ps) : ps[i].name = n}

Min(S) == CHOOSE i \in S : \A j \in S : i <= j

\* Module.get / MapExpr.get: the value of the first property called n, or None.
PropsGet(ps, n) ==
    IF PropIndices(ps, n) = {} THEN None ELSE ps[Min(PropIndices(ps, n))].value

ModuleGet(m, n) == PropsGet(m.properties, n)

\* The "name" properties of m whose value is a String.
StringNames(m) ==
    {i \in PropIndices(m.properties, "name") : m.properties[i].value.t = "String"}

\* Module.name is not None.
ModuleHasName(m) == StringNames(m) # {}

\* Module.name: the value of the first "name" property that is a String.
ModuleName(m) ==
    IF ModuleHasName(m) THEN m.properties[Min(StringNames(m))].value.value ELSE None

-----------------------------------------------------------------------------
(* evaluator.py: the extraction helpers *)

extract_string(expr) == IF expr.t = "String" THEN expr.value ELSE None

\* The loop of extract_string_list: the values extract_string does not give None for.
RECURSIVE StringsOf(_)
StringsOf(vs) ==
    IF vs = <<>> THEN <<>>
    ELSE (IF Head(vs).t = "String" THEN <<extract_string(Head(vs))>> ELSE <<>>)
         \o StringsOf(Tail(vs))

extract_string_list(expr) == IF expr.t = "List" THEN StringsOf(expr.values) ELSE <<>>

-----------------------------------------------------------------------------
(* evaluator.py: the Evaluator *)

\* The identifiers of the variable scope.
Identifiers == {"x", "y"}

Assignment(n, v, a) == [name |-> n, value |-> v, assigner |-> a]

\* name in self.variables
IsBound(scope, name) == name \in DOMAIN scope /\ scope[name] # None

\* A slip in lines 28 to 30: the operands of the += the other way round.
Assign_value_first(scope, defn) ==
    IF defn.assigner = "+=" /\ IsBound(scope, defn.name)
    THEN [scope EXCEPT ![defn.name] = OperatorExpr(defn.value, "+", @)]
    ELSE [scope EXCEPT ![defn.name] = defn.value]

\* The body of the loop of add_file_variables, for one Assignment.
Assign(scope, defn) ==
    IF defn.assigner = "+=" /\ IsBound(scope, defn.name)
    THEN [scope EXCEPT ![defn.name] = OperatorExpr(@, "+", defn.value)]
    ELSE [scope EXCEPT ![defn.name] = defn.value]

\* Evaluator.add_file_variables(file), on file.defs' assignments in source order.
RECURSIVE add_file_variables(_, _)
add_file_variables(scope, defs) ==
    IF defs = <<>> THEN scope
    ELSE add_file_variables(Assign(scope, Head(defs)), Tail(defs))

\* What evaluate raises: EvalError for an undefined variable, and RecursionError when a
\* variable's value needs the variable itself, which no depth of recursion ends.
EvalError(n) == [t |-> "EvalError", name |-> n]

RecursionError == [t |-> "RecursionError"]

Raised(v) == v.t \in {"EvalError", "RecursionError"}

AnyRaised(vs) == \E i \in DOMAIN vs : Raised(vs[i])

\* The elements are evaluated in order: the first to raise ends the call.
FirstRaised(vs) == vs[Min({i \in DOMAIN vs : Raised(vs[i])})]

\* A slip in line 52: the right operand's values put first.
fold_operator_swapped(op, left, right) ==
    IF op = "+" /\ left.t = "List" /\ right.t = "List"
    THEN ListExpr(right.values \o left.values)
    ELSE IF op = "+" /\ left.t = "String" /\ right.t = "String"
    THEN StringExpr(right.value \o left.value)
    ELSE OperatorExpr(left, op, right)

\* evaluate, lines 50 to 58, on the evaluated operands.
fold_operator(op, left, right) ==
    IF op = "+" /\ left.t = "List" /\ right.t = "List"
    THEN ListExpr(left.values \o right.values)
    ELSE IF op = "+" /\ left.t = "String" /\ right.t = "String"
    THEN StringExpr(left.value \o right.value)
    ELSE OperatorExpr(left, op, right)

RECURSIVE evaluate(_, _, _)

\* A slip in line 44: the bound expression returned as it is bound.
evaluate_variable_unevaluated(scope, name, seen) ==
    IF ~IsBound(scope, name) THEN EvalError(name) ELSE scope[name]

\* evaluate, lines 41 to 44. seen holds the variables whose value is being evaluated:
\* the evaluation of one of them under itself repeats without end.
evaluate_variable(scope, name, seen) ==
    IF ~IsBound(scope, name) THEN EvalError(name)
    ELSE IF name \in seen THEN RecursionError
    ELSE evaluate(scope, scope[name], seen \cup {name})

\* Evaluator.evaluate(e) under the scope.
evaluate(scope, e, seen) ==
    CASE e.t \in {"String", "Bool", "Int"} -> e
      [] e.t = "VariableRef" -> evaluate_variable(scope, e.name, seen)
      [] e.t = "Operator" ->
            LET left == evaluate(scope, e.left, seen)
                right == evaluate(scope, e.right, seen)
            IN  IF Raised(left) THEN left
                ELSE IF Raised(right) THEN right
                ELSE fold_operator(e.op, left, right)
      [] e.t = "List" ->
            LET vs == [i \in DOMAIN e.values |-> evaluate(scope, e.values[i], seen)]
            IN  IF AnyRaised(vs) THEN FirstRaised(vs) ELSE ListExpr(vs)
      [] e.t = "Map" ->
            LET vs == [i \in DOMAIN e.properties |->
                          evaluate(scope, e.properties[i].value, seen)]
            IN  IF AnyRaised(vs) THEN FirstRaised(vs)
                ELSE MapExpr([i \in DOMAIN vs |-> Property(e.properties[i].name, vs[i])])
      [] OTHER -> e

-----------------------------------------------------------------------------
(* defaults.py *)

\* A dict as the sequence of its items in insertion order.
DictHas(d, k) == PropIndices(d, k) # {}

DictGet(d, k) == PropsGet(d, k)

\* d[k] = v: an existing key keeps its place, a new one goes last.
DictSet(d, k, v) ==
    IF DictHas(d, k)
    THEN [i \in 1..Len(d) |-> IF d[i].name = k THEN Property(k, v) ELSE d[i]]
    ELSE Append(d, Property(k, v))

\* {p.name: p.value for p in ps}
RECURSIVE DictOf(_)
DictOf(ps) ==
    IF ps = <<>> THEN <<>>
    ELSE LET n == Len(ps) IN DictSet(DictOf(SubSeq(ps, 1, n - 1)), ps[n].name, ps[n].value)

RECURSIVE merge_values(_, _)
RECURSIVE MergeMap(_, _)

\* A slip in lines 116-117: a key of both sides takes the incoming value unmerged.
RECURSIVE MergeMap_shallow(_, _)
MergeMap_shallow(merged, ps) ==
    IF ps = <<>> THEN merged
    ELSE MergeMap_shallow(DictSet(merged, Head(ps).name, Head(ps).value), Tail(ps))

\* The loop of _merge_values over overlay.properties, on the dict merged.
MergeMap(merged, ps) ==
    IF ps = <<>> THEN merged
    ELSE LET prop == Head(ps)
             next == IF DictHas(merged, prop.name)
                     THEN DictSet(merged, prop.name,
                                  merge_values(DictGet(merged, prop.name), prop.value))
                     ELSE DictSet(merged, prop.name, prop.value)
         IN  MergeMap(next, Tail(ps))

\* A slip in line 110: the incoming list put first.
merge_values_overlay_first(base, overlay) ==
    IF base.t = "List" /\ overlay.t = "List"
    THEN ListExpr(overlay.values \o base.values)
    ELSE IF base.t = "Map" /\ overlay.t = "Map"
    THEN MapExpr(MergeMap(DictOf(base.properties), overlay.properties))
    ELSE overlay

\* A slip in line 125: the existing value kept.
merge_values_base_kept(base, overlay) ==
    IF base.t = "List" /\ overlay.t = "List"
    THEN ListExpr(base.values \o overlay.values)
    ELSE IF base.t = "Map" /\ overlay.t = "Map"
    THEN MapExpr(MergeMap(DictOf(base.properties), overlay.properties))
    ELSE base

merge_values(base, overlay) ==
    IF base.t = "List" /\ overlay.t = "List"
    THEN ListExpr(base.values \o overlay.values)
    ELSE IF base.t = "Map" /\ overlay.t = "Map"
    THEN MapExpr(MergeMap(DictOf(base.properties), overlay.properties))
    ELSE overlay

RECURSIVE merge_properties(_, _)
merge_properties(target, properties) ==
    IF properties = <<>> THEN target
    ELSE LET prop == Head(properties)
             next == IF prop.name \in {"name", "defaults"} THEN target
                     ELSE IF DictHas(target, prop.name)
                     THEN DictSet(target, prop.name,
                                  merge_values(DictGet(target, prop.name), prop.value))
                     ELSE DictSet(target, prop.name, prop.value)
         IN  merge_properties(next, Tail(properties))

\* The names a registered module's own "defaults" property lists.
NestedNames(defaults_module) ==
    IF ModuleGet(defaults_module, "defaults") # None
    THEN extract_string_list(ModuleGet(defaults_module, "defaults"))
    ELSE <<>>

RECURSIVE collect_defaults(_, _, _)
RECURSIVE CollectEach(_, _, _)

\* for name in names: self._collect_defaults(name, result, visited)
CollectEach(reg, names, st) ==
    IF names = <<>> THEN st
    ELSE CollectEach(reg, Tail(names), collect_defaults(reg, Head(names), st))

\* A slip in lines 79 to 86: the module appended before its nested defaults.
collect_defaults_preorder(reg, name, st) ==
    IF name \in st.visited THEN st
    ELSE LET seen == [st EXCEPT !.visited = @ \cup {name}]
         IN  IF name \notin DOMAIN reg THEN seen
             ELSE CollectEach(reg, NestedNames(reg[name]),
                              [seen EXCEPT !.result = Append(@, reg[name])])

\* A slip in lines 75 to 83: the nested calls given a copy of visited, so that what
\* they visit is not known to the calls after them.
collect_defaults_visited_copied(reg, name, st) ==
    IF name \in st.visited THEN st
    ELSE LET seen == [st EXCEPT !.visited = @ \cup {name}]
         IN  IF name \notin DOMAIN reg THEN seen
             ELSE LET nested == CollectEach(reg, NestedNames(reg[name]), seen)
                  IN  [result |-> Append(nested.result, reg[name]), visited |-> seen.visited]

\* st holds the two arguments the calls share and change: result and visited.
collect_defaults(reg, name, st) ==
    IF name \in st.visited THEN st
    ELSE LET seen == [st EXCEPT !.visited = @ \cup {name}]
         IN  IF name \notin DOMAIN reg THEN seen
             ELSE LET nested == CollectEach(reg, NestedNames(reg[name]), seen)
                  IN  [nested EXCEPT !.result = Append(@, reg[name])]

\* for defaults_module in all_defaults: self._merge_properties(merged_props, ...)
RECURSIVE MergeAll(_, _)
MergeAll(merged, mods) ==
    IF mods = <<>> THEN merged
    ELSE MergeAll(merge_properties(merged, Head(mods).properties), Tail(mods))

\* The module built from the module's own properties merged over merged (lines 51 to 66).
Reconstructed(m, merged) ==
    LET own == merge_properties(merged,
                                SelectSeq(m.properties, LAMBDA p : p.name # "defaults"))
    IN  Module(m.type,
               IF ~DictHas(own, "name") /\ ModuleGet(m, "name") # None
               THEN <<Property("name", ModuleGet(m, "name"))>> \o own
               ELSE own)

\* resolve from line 45 on: the merge of the collected defaults and the module.
MergeResolved(m, collected) == Reconstructed(m, MergeAll(<<>>, collected))

\* resolve's two early returns: no "defaults" property, or no string in it.
ReturnsUnchanged(m) ==
    \/ ModuleGet(m, "defaults") = None
    \/ extract_string_list(ModuleGet(m, "defaults")) = <<>>

resolve(reg, m) ==
    IF ReturnsUnchanged(m) THEN m
    ELSE MergeResolved(m,
            CollectEach(reg, extract_string_list(ModuleGet(m, "defaults")),
                        [result |-> <<>>, visited |-> {}]).result)

RECURSIVE register_defaults(_, _)
register_defaults(reg, modules) ==
    IF modules = <<>> THEN reg
    ELSE LET m == Head(modules)
             name == ModuleName(m)
             next == IF m.type = "cc_defaults" /\ ModuleHasName(m) /\ name # ""
                     THEN [k \in DOMAIN reg \cup {name} |-> IF k = name THEN m ELSE reg[k]]
                     ELSE reg
         IN  register_defaults(next, Tail(modules))

-----------------------------------------------------------------------------
(* The modules the resolver is given. *)

\* The longest "defaults" list of a consumer module.
MaxDefaults == 2

\* The longest "defaults" list of a cc_defaults module.
MaxNested == 1

\* The names cc_defaults modules are given and "defaults" lists name.
Names == {"A", "B", "C"}

SeqsUpTo(S, n) == UNION {[1..k -> S] : k \in 0..n}

\* A "defaults" list of names as the parser builds it.
DefaultsProperty(names) ==
    Property("defaults", ListExpr([i \in 1..Len(names) |-> StringExpr(names[i])]))

\* The List property every module of the graph inputs defines: two flags of its own.
FlagsOf(n) == ListExpr(<<StringExpr("-" \o n \o "1"), StringExpr("-" \o n \o "2")>>)

\* cc_defaults { name: n, defaults: names, cflags: [...] }
DefaultsModule(n, names) ==
    Module("cc_defaults",
           <<Property("name", StringExpr(n)), DefaultsProperty(names),
             Property("cflags", FlagsOf(n))>>)

\* cc_library_static { name: "M", defaults: names, cflags: [...] }
Consumer(names) ==
    Module("cc_library_static",
           <<Property("name", StringExpr("M")), DefaultsProperty(names),
             Property("cflags", FlagsOf("M"))>>)

\* m without its "defaults" properties.
WithoutDefaults(m) ==
    Module(m.type, SelectSeq(m.properties, LAMBDA p : p.name # "defaults"))

GraphDefaults ==
    {DefaultsModule(n, d) : n \in Names, d \in SeqsUpTo(Names, MaxNested)}
    \cup {WithoutDefaults(DefaultsModule(n, <<>>)) : n \in Names}

GraphConsumers ==
    {Consumer(d) : d \in SeqsUpTo(Names, MaxDefaults)}
    \cup {WithoutDefaults(Consumer(<<>>))}

\* Modules register_defaults passes over, a property written twice, and "defaults"
\* values that are no list of strings only.
OddModules ==
    { Module("cc_defaults", <<Property("cflags", FlagsOf("U"))>>),
      Module("cc_defaults", <<Property("name", StringExpr("")),
                              Property("cflags", FlagsOf("E"))>>),
      Module("cc_defaults", <<Property("name", VariableRef("A")),
                              Property("cflags", FlagsOf("V"))>>),
      Module("cc_library_static", <<Property("name", StringExpr("A")),
                                    Property("cflags", FlagsOf("L"))>>),
      Module("cc_library_static", <<Property("name", StringExpr("M")),
                                    Property("cflags", FlagsOf("M")),
                                    Property("cflags", FlagsOf("N"))>>),
      Module("cc_library_static", <<Property("name", StringExpr("M")),
                                    DefaultsProperty(<<"A">>),
                                    Property("cflags", FlagsOf("M")),
                                    Property("cflags", FlagsOf("N"))>>),
      Module("cc_library_static", <<Property("name", StringExpr("M")),
                                    Property("defaults", StringExpr("A")),
                                    Property("cflags", FlagsOf("M"))>>),
      Module("cc_library_static", <<Property("name", StringExpr("M")),
                                    Property("defaults",
                                             ListExpr(<<BoolExpr(TRUE), StringExpr("A")>>)),
                                    Property("cflags", FlagsOf("M"))>>) }

GraphModules == GraphDefaults \cup GraphConsumers \cup OddModules

-----------------------------------------------------------------------------
(* The resolver's operations. A Converter registers a file's cc_defaults     *)
(* first and resolves its modules afterwards, taking each result before the *)
(* next call.                                                               *)

Idle == pc = "idle"

InitCollect ==
    /\ pc = "idle"
    /\ names_left = <<>>
    /\ stack = <<>>
    /\ visited = {}
    /\ all_defaults = <<>>
    /\ merge_left = <<>>
    /\ merged_props = <<>>

\* Evaluator(): no variable is bound.
InitEval ==
    /\ variables = [n \in Identifiers |-> None]
    /\ input = None
    /\ evaluated = None
    /\ reevaluated = None

\* Converter(): target_arch is "x86_64" unless given, and no file was converted,
\* written or parsed.
InitConverter ==
    /\ target_arch = "x86_64"
    /\ bp_file = None
    /\ output_prefix = ""
    /\ result = None
    /\ written = <<>>
    /\ source = None
    /\ lexed = None
    /\ parsed = None

\* No object is allocated before the first file is parsed.
InitHeap ==
    /\ heap = <<>>
    /\ registry_at = <<>>
    /\ variables_at = <<>>
    /\ held = <<>>
    /\ original = <<>>

Init ==
    /\ defaults_registry = <<>>
    /\ module = None
    /\ resolved = None
    /\ InitCollect
    /\ InitEval
    /\ InitConverter
    /\ InitHeap

\* DefaultsResolver.register_defaults(modules)
RegisterDefaults(modules) ==
    /\ Idle
    /\ module = None
    /\ defaults_registry' = register_defaults(defaults_registry, modules)
    /\ UNCHANGED <<module, resolved>>
    /\ UNCHANGED collect_vars
    /\ UNCHANGED eval_vars
    /\ UNCHANGED <<conv_vars, heap_vars>>

\* DefaultsResolver.resolve(m), call to return.
Resolve(m) ==
    /\ Idle
    /\ module = None
    /\ module' = m
    /\ resolved' = resolve(defaults_registry, m)
    /\ UNCHANGED defaults_registry
    /\ UNCHANGED collect_vars
    /\ UNCHANGED eval_vars
    /\ UNCHANGED <<conv_vars, heap_vars>>

\* convert_file takes the resolved module (lines 84 to 106) and goes on.
Consume ==
    /\ Idle
    /\ module # None
    /\ module' = None
    /\ resolved' = None
    /\ UNCHANGED defaults_registry
    /\ UNCHANGED collect_vars
    /\ UNCHANGED eval_vars
    /\ UNCHANGED <<conv_vars, heap_vars>>

Next ==
    \/ \E m \in GraphModules : RegisterDefaults(<<m>>)
    \/ \E m \in GraphModules : Resolve(m)
    \/ Consume

Spec == Init /\ [][Next]_vars

-----------------------------------------------------------------------------
(* resolve, one step per call of and return from _collect_defaults. *)

\* The deepest _collect_defaults recursion the model follows: beyond what the names
\* allow (StackBounded), so that it stops only a recursion that would not end.
MaxStack == 5

Frame(name) == [name |-> name, at |-> "entry", nested |-> <<>>]

Top == stack[Len(stack)]

Pop == SubSeq(stack, 1, Len(stack) - 1)

\* resolve, lines 31 to 41: the early returns, or the start of the collection.
ResolveCall(m) ==
    /\ Idle
    /\ module = None
    /\ module' = m
    /\ IF ReturnsUnchanged(m)
       THEN /\ resolved' = m
            /\ UNCHANGED <<pc, names_left>>
       ELSE /\ resolved' = None
            /\ pc' = "collect"
            /\ names_left' = extract_string_list(ModuleGet(m, "defaults"))
    /\ visited' = {}
    /\ all_defaults' = <<>>
    /\ UNCHANGED <<defaults_registry, stack, merge_left, merged_props>>
    /\ UNCHANGED eval_vars
    /\ UNCHANGED <<conv_vars, heap_vars>>

\* resolve, lines 42 and 43: the call for the next of defaults_names.
CollectNext ==
    /\ pc = "collect"
    /\ stack = <<>>
    /\ names_left # <<>>
    /\ stack' = <<Frame(Head(names_left))>>
    /\ names_left' = Tail(names_left)
    /\ UNCHANGED <<defaults_registry, module, resolved, pc, visited, all_defaults,
                   merge_left, merged_props>>
    /\ UNCHANGED eval_vars
    /\ UNCHANGED <<conv_vars, heap_vars>>

\* A slip in lines 70 to 72: no visited check.
CollectEnter_unchecked ==
    /\ pc = "collect"
    /\ stack # <<>>
    /\ Top.at = "entry"
    /\ visited' = visited \cup {Top.name}
    /\ IF Top.name \notin DOMAIN defaults_registry
       THEN stack' = Pop
       ELSE stack' = [stack EXCEPT ![Len(stack)] =
                         [@ EXCEPT !.at = "nested",
                                   !.nested = NestedNames(defaults_registry[Top.name])]]
    /\ UNCHANGED <<defaults_registry, module, resolved, pc, names_left, all_defaults,
                   merge_left, merged_props>>
    /\ UNCHANGED eval_vars
    /\ UNCHANGED <<conv_vars, heap_vars>>

\* _collect_defaults, lines 70 to 82: a visited or unknown name returns.
CollectEnter ==
    /\ pc = "collect"
    /\ stack # <<>>
    /\ Top.at = "entry"
    /\ IF Top.name \in visited
       THEN /\ stack' = Pop
            /\ UNCHANGED visited
       ELSE /\ visited' = visited \cup {Top.name}
            /\ IF Top.name \notin DOMAIN defaults_registry
               THEN stack' = Pop
               ELSE stack' = [stack EXCEPT ![Len(stack)] =
                                 [@ EXCEPT !.at = "nested",
                                           !.nested = NestedNames(defaults_registry[Top.name])]]
    /\ UNCHANGED <<defaults_registry, module, resolved, pc, names_left, all_defaults,
                   merge_left, merged_props>>
    /\ UNCHANGED eval_vars
    /\ UNCHANGED <<conv_vars, heap_vars>>

\* _collect_defaults, lines 83 and 84: the recursive call for the next nested name.
CollectRecurse ==
    /\ pc = "collect"
    /\ stack # <<>>
    /\ Top.at = "nested"
    /\ Top.nested # <<>>
    /\ Len(stack) < MaxStack
    /\ stack' = Append([stack EXCEPT ![Len(stack)] = [@ EXCEPT !.nested = Tail(@)]],
                       Frame(Head(Top.nested)))
    /\ UNCHANGED <<defaults_registry, module, resolved, pc, names_left, visited, all_defaults,
                   merge_left, merged_props>>
    /\ UNCHANGED eval_vars
    /\ UNCHANGED <<conv_vars, heap_vars>>

\* _collect_defaults, line 86: the module is appended after its nested defaults.
CollectAppend ==
    /\ pc = "collect"
    /\ stack # <<>>
    /\ Top.at = "nested"
    /\ Top.nested = <<>>
    /\ all_defaults' = Append(all_defaults, defaults_registry[Top.name])
    /\ stack' = Pop
    /\ UNCHANGED <<defaults_registry, module, resolved, pc, names_left, visited,
                   merge_left, merged_props>>
    /\ UNCHANGED eval_vars
    /\ UNCHANGED <<conv_vars, heap_vars>>

\* resolve, line 46: the collection is over, and the merge starts from an empty dict.
MergeStart ==
    /\ pc = "collect"
    /\ stack = <<>>
    /\ names_left = <<>>
    /\ pc' = "merge"
    /\ merge_left' = all_defaults
    /\ merged_props' = <<>>
    /\ UNCHANGED <<defaults_registry, module, resolved, names_left, stack, visited,
                   all_defaults>>
    /\ UNCHANGED eval_vars
    /\ UNCHANGED <<conv_vars, heap_vars>>

\* resolve, lines 47 and 48: the next collected module's properties are merged in.
MergeDefaults ==
    /\ pc = "merge"
    /\ merge_left # <<>>
    /\ merged_props' = merge_properties(merged_props, Head(merge_left).properties)
    /\ merge_left' = Tail(merge_left)
    /\ UNCHANGED <<defaults_registry, module, resolved, pc, names_left, stack, visited,
                   all_defaults>>
    /\ UNCHANGED eval_vars
    /\ UNCHANGED <<conv_vars, heap_vars>>

\* resolve, lines 51 to 66: the module's own properties, and the return, which ends the
\* call's locals.
ResolveReturn ==
    /\ pc = "merge"
    /\ merge_left = <<>>
    /\ resolved' = Reconstructed(module, merged_props)
    /\ pc' = "idle"
    /\ visited' = {}
    /\ all_defaults' = <<>>
    /\ merged_props' = <<>>
    /\ UNCHANGED <<defaults_registry, module, names_left, stack, merge_left>>
    /\ UNCHANGED eval_vars
    /\ UNCHANGED <<conv_vars, heap_vars>>

CollectStep ==
    \/ CollectNext
    \/ CollectEnter
    \/ CollectRecurse
    \/ CollectAppend
    \/ MergeStart
    \/ MergeDefaults
    \/ ResolveReturn

NextCollect ==
    \/ \E m \in GraphModules : RegisterDefaults(<<m>>)
    \/ \E m \in GraphModules : ResolveCall(m)
    \/ CollectStep
    \/ Consume

\* A call runs to its return: nothing suspends or preempts it (spec section 5).
SpecCollect == Init /\ [][NextCollect]_vars /\ WF_vars(CollectStep)

-----------------------------------------------------------------------------
(* Properties of resolve. *)

\* A resolve call has returned and its result has not been taken yet.
Returned == module # None /\ resolved # None

\* m's "defaults" property is the list of the strings names.
InheritsExactly(m, names) ==
    ModuleGet(m, "defaults") = ListExpr([i \in 1..Len(names) |-> StringExpr(names[i])])

\* m defines exactly one property called p, and it is a List.
DefinesList(m, p) ==
    /\ Cardinality(PropIndices(m.properties, p)) = 1
    /\ ModuleGet(m, p).t = "List"

Registered(n) == n \in DOMAIN defaults_registry

\* Every name in d's own "defaults" is d itself or unknown: d inherits from no other
\* registered cc_defaults.
InheritsNothing(d) ==
    \A i \in 1..Len(NestedNames(defaults_registry[d])) :
        LET k == NestedNames(defaults_registry[d])[i] IN k = d \/ ~Registered(k)

\* The resolved P of a module inheriting [D1, D2] is D1.P ++ D2.P ++ M.P.
ConcatOfTwo(D1, D2) ==
    ModuleGet(resolved, "cflags") =
        ListExpr(ModuleGet(defaults_registry[D1], "cflags").values
                 \o ModuleGet(defaults_registry[D2], "cflags").values
                 \o ModuleGet(module, "cflags").values)

TwoListDefaults(D1, D2) ==
    /\ Returned
    /\ Registered(D1) /\ Registered(D2)
    /\ InheritsExactly(module, <<D1, D2>>)
    /\ DefinesList(defaults_registry[D1], "cflags")
    /\ DefinesList(defaults_registry[D2], "cflags")
    /\ DefinesList(module, "cflags")

\* C1 as stated: for any module whose defaults list is [D1, D2], two registered
\* cc_defaults, with a List property P in D1, D2 and the module, resolve yields
\* P = D1.P ++ D2.P ++ M.P.
C1_AnyTwoDefaultsConcatenate ==
    \A D1 \in Names, D2 \in Names :
        (D1 # D2 /\ TwoListDefaults(D1, D2)) => ConcatOfTwo(D1, D2)

\* D1 and D2 are two cc_defaults, neither inheriting from another registered one.
TwoFlatDefaults(D1, D2) ==
    /\ TwoListDefaults(D1, D2)
    /\ D1 # D2
    /\ InheritsNothing(D1) /\ InheritsNothing(D2)

\* C1 amended: when D1 and D2 are distinct and neither inherits from another registered
\* cc_defaults, resolve yields P = D1.P ++ D2.P ++ M.P, in order, nothing dropped or
\* duplicated.
C1_FlatDefaultsConcatenate ==
    \A D1 \in Names, D2 \in Names : TwoFlatDefaults(D1, D2) => ConcatOfTwo(D1, D2)

C1_Witness ==
    /\ TwoFlatDefaults("A", "B")
    /\ Len(ModuleGet(resolved, "cflags").values) = 6

\* M names B, B names A, and A inherits from nothing outside the chain.
Chain(A, B) ==
    /\ Returned
    /\ A # B
    /\ Registered(A) /\ Registered(B)
    /\ InheritsExactly(module, <<B>>)
    /\ InheritsExactly(defaults_registry[B], <<A>>)
    /\ \A i \in 1..Len(NestedNames(defaults_registry[A])) :
          LET k == NestedNames(defaults_registry[A])[i] IN k \in {A, B} \/ ~Registered(k)
    /\ DefinesList(defaults_registry[A], "cflags")
    /\ DefinesList(defaults_registry[B], "cflags")
    /\ DefinesList(module, "cflags")

\* The names reachable from n along the registered modules' "defaults" lists.
RECURSIVE ReachFrom(_, _)
ReachFrom(n, seen) ==
    IF n \in seen \/ ~Registered(n) THEN seen
    ELSE LET names == NestedNames(defaults_registry[n])
             step[i \in 0..Len(names)] ==
                 IF i = 0 THEN seen \cup {n} ELSE ReachFrom(names[i], step[i - 1])
         IN  step[Len(names)]

\* n's own defaults, and theirs, and so on.
Inherited(n) ==
    LET names == NestedNames(defaults_registry[n])
    IN  UNION {ReachFrom(names[i], {}) : i \in 1..Len(names)}

\* Where the first flag of the module named n stands in the resolved cflags (0: nowhere).
FlagAt(n) ==
    LET vs == ModuleGet(resolved, "cflags").values
        S == {i \in 1..Len(vs) : vs[i] = FlagsOf(n).values[1]}
    IN  IF S = {} THEN 0 ELSE Min(S)

\* The module's own flags are those of no cc_defaults: every flag tells its module.
OwnFlags == \A n \in Names : ModuleGet(module, "cflags") # FlagsOf(n)

\* C2: a default's own defaults are merged before it (unless they inherit from it in
\* turn, a cycle); so for M naming B naming A, P resolves to A.P ++ B.P ++ M.P.
C2_NestedDefaultsFirst ==
    /\ \A A \in Names, B \in Names :
          Chain(A, B) =>
              ModuleGet(resolved, "cflags") =
                  ListExpr(ModuleGet(defaults_registry[A], "cflags").values
                           \o ModuleGet(defaults_registry[B], "cflags").values
                           \o ModuleGet(module, "cflags").values)
    /\ \A X \in Names, Y \in Names :
          ( /\ Returned /\ ~ReturnsUnchanged(module)
            /\ OwnFlags
            /\ Registered(X) /\ Registered(Y)
            /\ FlagAt(X) > 0
            /\ \E i \in 1..Len(NestedNames(defaults_registry[X])) :
                   NestedNames(defaults_registry[X])[i] = Y
            /\ X \notin Inherited(Y) )
          => (0 < FlagAt(Y) /\ FlagAt(Y) < FlagAt(X))

C2_Witness ==
    /\ Chain("A", "B")
    /\ module.type = "cc_library_static"
    /\ FlagAt("A") = 1 /\ FlagAt("B") = 3 /\ FlagAt("M") = 5

-----------------------------------------------------------------------------
(* Cycles among the defaults. *)

\* m is the module registered under its own name.
IsRegistered(m) ==
    /\ ModuleHasName(m)
    /\ Registered(ModuleName(m))
    /\ defaults_registry[ModuleName(m)] = m

\* A depth-first walk of the defaults graph from the registered module x, whose
\* ancestors in the walk are path: an edge from a module to itself or to one of its
\* ancestors is a back-edge. st holds the modules seen and the back-edges found.
RECURSIVE Walk(_, _, _)
Walk(x, path, st) ==
    LET names == NestedNames(defaults_registry[x])
        step[i \in 0..Len(names)] ==
            IF i = 0 THEN [st EXCEPT !.seen = @ \cup {x}]
            ELSE LET k == names[i]
                     before == step[i - 1]
                 IN  IF k \in path \cup {x}
                     THEN [before EXCEPT !.back = @ \cup {<<x, k>>}]
                     ELSE IF k \in before.seen \/ ~Registered(k) THEN before
                     ELSE Walk(k, path \cup {x}, before)
    IN  step[Len(names)]

\* The walk from the names m lists, none of which has an ancestor but m itself when m
\* is registered.
RECURSIVE WalkRoots(_, _, _)
WalkRoots(names, path, st) ==
    IF names = <<>> THEN st
    ELSE LET k == Head(names)
         IN  WalkRoots(Tail(names), path,
                       IF k \in st.seen \/ ~Registered(k) THEN st ELSE Walk(k, path, st))

\* The back-edges of the defaults graph as resolve(m) walks it.
BackEdges(m) ==
    IF IsRegistered(m)
    THEN Walk(ModuleName(m), {}, [seen |-> {}, back |-> {}]).back
    ELSE WalkRoots(NestedNames(m), {}, [seen |-> {}, back |-> {}]).back

\* m, known as n, without the names its "defaults" lists along an edge of edges.
CutEdges(m, n, edges) ==
    Module(m.type,
           [i \in 1..Len(m.properties) |->
               LET p == m.properties[i]
               IN  IF p.name = "defaults" /\ p.value.t = "List"
                   THEN Property("defaults",
                            ListExpr(SelectSeq(p.value.values,
                                LAMBDA v : ~(v.t = "String" /\ <<n, v.value>> \in edges))))
                   ELSE p])

\* The registry with the edges cut.
CutRegistry(edges) ==
    [n \in DOMAIN defaults_registry |-> CutEdges(defaults_registry[n], n, edges)]

\* What resolve(m) returns from the registry without the back-edges.
ResolvedAcyclic(m) ==
    resolve(CutRegistry(BackEdges(m)),
            IF IsRegistered(m) THEN CutEdges(m, ModuleName(m), BackEdges(m)) ELSE m)

\* The properties of m but "defaults".
OwnProperties(m) == SelectSeq(m.properties, LAMBDA p : p.name # "defaults")

\* C4: for a registry with a cycle and any module passed to resolve, a consumer outside
\* the cycle or a cc_defaults on it, the resolved properties are those obtained from
\* the registry with the cycle's back-edge removed.
C4_CycleAsBackEdgeRemoved ==
    (Returned /\ BackEdges(module) # {})
        => OwnProperties(resolved) = OwnProperties(ResolvedAcyclic(module))

\* C4 for the consumers only: modules that are not themselves registered.
ConsumerCycleAsBackEdgeRemoved ==
    (Returned /\ BackEdges(module) # {} /\ ~IsRegistered(module))
        => OwnProperties(resolved) = OwnProperties(ResolvedAcyclic(module))

-----------------------------------------------------------------------------
(* One property per name. *)

\* No two properties of ps have the same name.
DistinctNames(ps) == \A i \in 1..Len(ps), j \in 1..Len(ps) : ps[i].name = ps[j].name => i = j

\* C5: whatever the properties of the module given to resolve, the returned module's
\* property list holds at most one Property per name.
C5_OnePropertyPerName == Returned => DistinctNames(resolved.properties)

\* What holds of the code: the modules resolve does not return unchanged have one
\* property per name.
MergedHasOnePropertyPerName ==
    (Returned /\ ~ReturnsUnchanged(module)) => DistinctNames(resolved.properties)

-----------------------------------------------------------------------------
(* The merge rules: modules that define a property "p" of every shape. *)

\* The shapes of the value a module gives "p".
Shapes == {"string", "int", "list", "flat", "mixed", "deep", "deeper"}

\* The defaults that are merged, in either order, under the consumer "M".
MergeNames == {"A", "B"}

OwnList(o) == ListExpr(<<StringExpr(o \o "1"), StringExpr(o \o "2")>>)

\* {k: [..], <o>: "o"}: k on every side, a key of the owner's on one side only.
FlatMap(o) == MapExpr(<<Property("k", OwnList(o)), Property(o, StringExpr(o))>>)

\* {j: [..], k: "o"}: k is a List in FlatMap and a String here.
MixedMap(o) == MapExpr(<<Property("j", OwnList(o)), Property("k", StringExpr(o))>>)

\* The value of shape sh that tells its owner o.
ValueOf(o, sh) ==
    CASE sh = "string" -> StringExpr(o)
      [] sh = "int" -> IntExpr(IF o = "A" THEN 1 ELSE IF o = "B" THEN 2 ELSE 3)
      [] sh = "list" -> OwnList(o)
      [] sh = "flat" -> FlatMap(o)
      [] sh = "mixed" -> MixedMap(o)
      [] sh = "deep" -> MapExpr(<<Property("n", FlatMap(o)), Property("k", OwnList(o))>>)
      [] sh = "deeper" -> MapExpr(<<Property("n", MapExpr(<<Property("n", MixedMap(o)),
                                                             Property("k", StringExpr(o))>>)),
                                    Property("j", OwnList(o))>>)

\* <type> { name: n, defaults: names, p: <value of shape sh> }
ShapedModule(type, n, names, sh) ==
    Module(type, <<Property("name", StringExpr(n)), DefaultsProperty(names),
                   Property("p", ValueOf(n, sh))>>)

\* The same without "p".
BareModule(type, n, names) ==
    Module(type, <<Property("name", StringExpr(n)), DefaultsProperty(names)>>)

MergeDefaultsModules ==
    {ShapedModule("cc_defaults", n, <<>>, sh) : n \in MergeNames, sh \in Shapes}
    \cup {BareModule("cc_defaults", n, <<>>) : n \in MergeNames}

MergeConsumers ==
    {ShapedModule("cc_library_static", "M", d, sh) :
        d \in {<<"A">>, <<"A", "B">>, <<"B", "A">>}, sh \in Shapes}
    \cup {BareModule("cc_library_static", "M", d) : d \in {<<"A", "B">>, <<"B", "A">>}}

NextMerge ==
    \/ \E m \in MergeDefaultsModules : RegisterDefaults(<<m>>)
    \/ \E m \in MergeConsumers : Resolve(m)
    \/ Consume

SpecMerge == Init /\ [][NextMerge]_vars

\* The values of "p" in merge order: the registered defaults the module names, in the
\* order it names them (none inherits from another here), then the module itself.
RECURSIVE DefinedIn(_)
DefinedIn(mods) ==
    IF mods = <<>> THEN <<>>
    ELSE (IF ModuleGet(Head(mods), "p") # None THEN <<ModuleGet(Head(mods), "p")>> ELSE <<>>)
         \o DefinedIn(Tail(mods))

MergeOrder ==
    LET names == SelectSeq(NestedNames(module), LAMBDA n : Registered(n))
    IN  [i \in 1..Len(names) |-> defaults_registry[names[i]]] \o <<module>>

Definitions == DefinedIn(MergeOrder)

\* The existing and the incoming value are both Lists, or both Maps.
BothListsOrMaps(existing, incoming) ==
    existing.t = incoming.t /\ incoming.t \in {"List", "Map"}

\* The accumulated value has the shape of the last value merged in, so the last two
\* definitions tell whether the last merge is one of a List into a List or a Map into
\* a Map.
LastReplaces ==
    LET n == Len(Definitions)
    IN  n >= 1 /\ (n >= 2 => ~BothListsOrMaps(Definitions[n - 1], Definitions[n]))

\* C6: when the existing and the incoming value are not both Lists and not both Maps,
\* the incoming value replaces the existing one: a later default overrides an earlier
\* one, and the module's own value overrides every default.
C6_IncomingReplaces ==
    (Returned /\ LastReplaces)
        => ModuleGet(resolved, "p") = Definitions[Len(Definitions)]

\* The module's own String replaced the Map its two defaults had merged into.
C6_Witness ==
    /\ Returned /\ LastReplaces
    /\ Len(Definitions) = 3
    /\ Definitions[1].t = "Map" /\ Definitions[2].t = "Map"
    /\ ModuleGet(module, "p") = StringExpr("M")
    /\ ModuleGet(resolved, "p") = StringExpr("M")

\* A later default's Int replaced an earlier default's List, the module defining no p.
LaterDefaultReplaced ==
    /\ Returned /\ LastReplaces
    /\ ModuleGet(module, "p") = None
    /\ InheritsExactly(module, <<"B", "A">>)
    /\ Len(Definitions) = 2
    /\ Definitions[1] = OwnList("B")
    /\ ModuleGet(resolved, "p") = IntExpr(1)

MapKeys(m) == {m.properties[i].name : i \in DOMAIN m.properties}

MapGet(m, k) == PropsGet(m.properties, k)

\* r is the merge of the existing value e and the incoming value i, as the rules
\* state it: Lists concatenate, Maps merge key by key, anything else is the incoming
\* value.
RECURSIVE MergedAs(_, _, _)
MergedAs(r, e, i) ==
    IF e.t = "List" /\ i.t = "List" THEN r = ListExpr(e.values \o i.values)
    ELSE IF e.t = "Map" /\ i.t = "Map"
    THEN /\ r.t = "Map"
         /\ MapKeys(r) = MapKeys(e) \cup MapKeys(i)
         /\ Len(r.properties) = Cardinality(MapKeys(r))
         /\ \A k \in MapKeys(r) :
                IF k \notin MapKeys(i) THEN MapGet(r, k) = MapGet(e, k)
                ELSE IF k \notin MapKeys(e) THEN MapGet(r, k) = MapGet(i, k)
                ELSE MergedAs(MapGet(r, k), MapGet(e, k), MapGet(i, k))
    ELSE r = i

\* The value accumulated before the last definition is merged in.
Accumulated ==
    IF Len(Definitions) = 3 THEN merge_values(Definitions[1], Definitions[2])
    ELSE Definitions[1]

Incoming == Definitions[Len(Definitions)]

BothMaps ==
    /\ Returned /\ Len(Definitions) >= 2
    /\ Accumulated.t = "Map" /\ Incoming.t = "Map"

\* C7: an accumulated Map and an incoming Map merge into a Map with every key of
\* either side: a key of one side keeps that side's value, a key of both is merged by
\* the same rules (Lists existing ++ incoming, Maps recursively, else the incoming
\* value) at every depth.
C7_MapsMergeKeyByKey ==
    BothMaps => MergedAs(ModuleGet(resolved, "p"), Accumulated, Incoming)

Depth3 == MapExpr(<<Property("n", MapExpr(<<Property("n", MapExpr(<<
                        Property("j", ListExpr(<<StringExpr("A1"), StringExpr("A2"),
                                                 StringExpr("M1"), StringExpr("M2")>>)),
                        Property("k", StringExpr("M"))>>)),
                    Property("k", StringExpr("M"))>>)),
                    Property("j", ListExpr(<<StringExpr("A1"), StringExpr("A2"),
                                             StringExpr("M1"), StringExpr("M2")>>))>>)

\* Two Maps three levels deep were merged: the Lists concatenated at the first and at
\* the third level, the Strings replaced.
C7_Witness ==
    /\ BothMaps
    /\ InheritsExactly(module, <<"A">>)
    /\ Accumulated = ValueOf("A", "deeper")
    /\ Incoming = ValueOf("M", "deeper")
    /\ ModuleGet(resolved, "p") = Depth3

\* Keys of one side only were kept, on a Map accumulated from two defaults.
OneSidedKeysKept ==
    /\ BothMaps /\ Len(Definitions) = 3
    /\ Definitions[1] = FlatMap("B") /\ Definitions[2] = MixedMap("A")
    /\ Incoming = FlatMap("M")
    /\ ModuleGet(resolved, "p") =
           MapExpr(<<Property("k", OwnList("M")), Property("B", StringExpr("B")),
                     Property("j", OwnList("A")), Property("M", StringExpr("M"))>>)

-----------------------------------------------------------------------------
(* Termination of resolve, on the step-wise call. *)

\* C3: every resolve call returns, whatever the registry: a self-reference, a two-node
\* cycle and a longer cycle included.
C3_ResolveTerminates == (module # None) ~> (module # None /\ resolved # None /\ pc = "idle")

\* The registered modules named by cycle inherit in a ring: each names the next.
Ring(cycle) ==
    \A i \in 1..Len(cycle) :
        /\ Registered(cycle[i])
        /\ InheritsExactly(defaults_registry[cycle[i]], <<cycle[(i % Len(cycle)) + 1]>>)

\* A consumer of the ring A -> B -> C -> A got its result: the three, each once.
C3_Witness ==
    /\ Ring(<<"A", "B", "C">>)
    /\ Returned /\ pc = "idle"
    /\ InheritsExactly(module, <<"A">>)
    /\ module.type = "cc_library_static"
    /\ Len(ModuleGet(resolved, "cflags").values) = 8

\* The step-wise call returns what the call taken as one step returns.
StepwiseAgrees == (Returned /\ pc = "idle") => resolved = resolve(defaults_registry, module)

\* The recursion is at most one frame deeper than there are names: MaxStack never binds.
StackBounded == Len(stack) <= Cardinality(Names) + 1

-----------------------------------------------------------------------------
(* The Evaluator's operations, on the assignments and expressions of a file. *)

\* The assignments of one file.
MaxAssignments == 2

\* The links of a variable's += chain that the model follows, over all variables.
MaxBindings == 3

Other(n) == IF n = "x" THEN "y" ELSE "x"

OneString(n) == ListExpr(<<StringExpr(n \o "1")>>)

\* The values assigned to the variable n: each tells the variable it was written for.
ValuesFor(n) ==
    {OneString(n), StringExpr(n), VariableRef(Other(n)), VariableRef(n)}

Assignments ==
    UNION {{Assignment(n, v, a) : v \in ValuesFor(n), a \in {"=", "+="}} : n \in Identifiers}

Files == SeqsUpTo(Assignments, MaxAssignments) \ {<<>>}

\* The assignments still seen in a binding: one, and one for each += applied to it.
RECURSIVE Bindings(_)
Bindings(e) ==
    IF e = None THEN 0
    ELSE IF e.t = "Operator" THEN Bindings(e.left) + 1
    ELSE 1

RECURSIVE SumBindings(_, _)
SumBindings(scope, names) ==
    IF names = {} THEN 0
    ELSE LET n == CHOOSE k \in names : TRUE
         IN  Bindings(scope[n]) + SumBindings(scope, names \ {n})

\* select(arch(), { "arm": x, default: ["m1"] })
Select ==
    SelectExpr("arch", <<>>,
               << [patterns |-> <<StringExpr("arm")>>, value |-> VariableRef("x")],
                  [patterns |-> <<StringExpr("default")>>, value |-> OneString("m")] >>)

\* What a '+' is written between in a module's property.
Operands ==
    { OneString("m"), StringExpr("m"), VariableRef("x"), VariableRef("y"),
      ListExpr(<<VariableRef("x"), StringExpr("m")>>),
      MapExpr(<<Property("a", OneString("m")), Property("k", VariableRef("x"))>>),
      MapExpr(<<Property("b", StringExpr("m")), Property("k", OneString("m"))>>),
      Select }

Expressions ==
    Operands
    \cup {OperatorExpr(l, "+", r) : l \in Operands, r \in Operands}
    \cup {OperatorExpr(OperatorExpr(VariableRef("x"), "+", r), "+", VariableRef("y")) :
            r \in {OneString("m"), StringExpr("m")}}
    \cup {IntExpr(1), BoolExpr(TRUE)}

\* Evaluator.add_file_variables(file)
AddFileVariables(defs) ==
    /\ input = None
    /\ SumBindings(add_file_variables(variables, defs), Identifiers) <= MaxBindings
    /\ variables' = add_file_variables(variables, defs)
    /\ UNCHANGED <<input, evaluated, reevaluated>>
    /\ UNCHANGED <<resolver_vars, collect_vars>>
    /\ UNCHANGED <<conv_vars, heap_vars>>

\* Evaluator.evaluate(e), call to return.
Evaluate(e) ==
    /\ input = None
    /\ input' = e
    /\ evaluated' = evaluate(variables, e, {})
    /\ UNCHANGED <<variables, reevaluated>>
    /\ UNCHANGED <<resolver_vars, collect_vars>>
    /\ UNCHANGED <<conv_vars, heap_vars>>

\* Evaluator.evaluate on the expression the last call returned.
Reevaluate ==
    /\ input # None
    /\ ~Raised(evaluated)
    /\ reevaluated = None
    /\ reevaluated' = evaluate(variables, evaluated, {})
    /\ UNCHANGED <<variables, input, evaluated>>
    /\ UNCHANGED <<resolver_vars, collect_vars>>
    /\ UNCHANGED <<conv_vars, heap_vars>>

\* The caller takes the evaluated expression and goes on.
TakeEvaluated ==
    /\ input # None
    /\ input' = None
    /\ evaluated' = None
    /\ reevaluated' = None
    /\ UNCHANGED variables
    /\ UNCHANGED <<resolver_vars, collect_vars>>
    /\ UNCHANGED <<conv_vars, heap_vars>>

NextEval ==
    \/ \E defs \in Files : AddFileVariables(defs)
    \/ \E e \in Expressions : Evaluate(e)
    \/ Reevaluate
    \/ TakeEvaluated

SpecEval == Init /\ [][NextEval]_vars

-----------------------------------------------------------------------------
(* Properties of evaluate. *)

\* evaluate has returned an expression for input.
Evaluated == input # None /\ ~Raised(evaluated)

\* input is left + right.
IsSum == input # None /\ input.t = "Operator" /\ input.op = "+"

\* What an operand stands for: the binding at the end of the references from it.
RECURSIVE Deref(_, _)
Deref(e, fuel) ==
    IF e.t = "VariableRef" /\ IsBound(variables, e.name) /\ fuel > 0
    THEN Deref(variables[e.name], fuel - 1)
    ELSE e

Referred(e) == Deref(e, Cardinality(Identifiers))

\* A List of Strings: its evaluated values are its values.
StringList(e) == e.t = "List" /\ \A i \in DOMAIN e.values : e.values[i].t = "String"

Left == evaluate(variables, input.left, {})

Right == evaluate(variables, input.right, {})

\* C8: for Lists A and B, evaluate(A + B) is the List of A's evaluated values followed
\* by B's, and for Strings a and b, evaluate(a + b) is the String a.value followed by
\* b.value, also when A, B, a, b are reached through variable references.
C8_SumConcatenates ==
    IsSum =>
        /\ (StringList(Referred(input.left)) /\ StringList(Referred(input.right)))
              => evaluated = ListExpr(Referred(input.left).values
                                      \o Referred(input.right).values)
        /\ (Referred(input.left).t = "String" /\ Referred(input.right).t = "String")
              => evaluated = StringExpr(Referred(input.left).value
                                        \o Referred(input.right).value)
        /\ (Left.t = "List" /\ Right.t = "List")
              => evaluated = ListExpr(Left.values \o Right.values)
        /\ (Left.t = "String" /\ Right.t = "String")
              => evaluated = StringExpr(Left.value \o Right.value)

\* x + y with x = ["x1"] and y = x + ["y1"]: both Lists come through references.
C8_Witness ==
    /\ IsSum
    /\ input.left = VariableRef("x") /\ input.right = VariableRef("y")
    /\ variables["x"] = OneString("x")
    /\ variables["y"] = OperatorExpr(VariableRef("x"), "+", OneString("y"))
    /\ evaluated = ListExpr(<<StringExpr("x1"), StringExpr("x1"), StringExpr("y1")>>)

\* "m" + y with y = x and x = "x": the Strings in the order written.
StringsConcatenated ==
    /\ IsSum
    /\ input.left = StringExpr("m") /\ input.right = VariableRef("y")
    /\ variables["y"] = VariableRef("x") /\ variables["x"] = StringExpr("x")
    /\ evaluated = StringExpr("mx")

\* C9: a '+' whose evaluated operands are both Maps evaluates to one Map, the per-key
\* merge of the two, not to an Operator node.
C9_MapSumIsMap ==
    (IsSum /\ Evaluated /\ Left.t = "Map" /\ Right.t = "Map")
        => evaluated.t = "Map" /\ MergedAs(evaluated, Left, Right)

\* A '+' of two Maps is returned as an Operator node over the two.
MapSumIsOperator ==
    (IsSum /\ Evaluated /\ Left.t = "Map" /\ Right.t = "Map")
        => evaluated = OperatorExpr(Left, "+", Right)

\* C10: whenever evaluate(e) returns, evaluate(evaluate(e)) returns and equals it.
C10_EvaluateIdempotent ==
    (Evaluated /\ reevaluated # None) => reevaluated = evaluated

RECURSIVE HasVariableRef(_)
HasVariableRef(e) ==
    CASE e.t = "VariableRef" -> TRUE
      [] e.t = "Operator" -> HasVariableRef(e.left) \/ HasVariableRef(e.right)
      [] e.t = "List" -> \E i \in DOMAIN e.values : HasVariableRef(e.values[i])
      [] e.t = "Map" -> \E i \in DOMAIN e.properties : HasVariableRef(e.properties[i].value)
      [] OTHER -> FALSE

\* A sum of references that stays an Operator node (a List and a String) was evaluated
\* twice, the variables bound through other variables and a += chain.
C10_Witness ==
    /\ Evaluated /\ reevaluated = evaluated
    /\ HasVariableRef(input)
    /\ evaluated.t = "Operator"
    /\ evaluated.left.t = "List" /\ evaluated.right.t = "String"
    /\ \E n \in Identifiers : variables[n].t = "Operator"

\* A Select, returned as it is with the reference in it, was evaluated twice.
SelectReevaluated ==
    /\ Evaluated /\ reevaluated = evaluated
    /\ input.t = "Operator" /\ input.right = Select /\ input.left = VariableRef("y")
    /\ evaluated.left.t = "String"

\* A VariableRef at any depth of e, the values of a Select's cases included.
RECURSIVE ContainsVariableRef(_)
ContainsVariableRef(e) ==
    CASE e.t = "VariableRef" -> TRUE
      [] e.t = "Operator" -> ContainsVariableRef(e.left) \/ ContainsVariableRef(e.right)
      [] e.t = "List" -> \E i \in DOMAIN e.values : ContainsVariableRef(e.values[i])
      [] e.t = "Map" ->
            \E i \in DOMAIN e.properties : ContainsVariableRef(e.properties[i].value)
      [] e.t = "Select" -> \E i \in DOMAIN e.cases : ContainsVariableRef(e.cases[i].value)
      [] OTHER -> FALSE

\* C11: whenever evaluate(e) returns, the returned tree has no VariableRef at any depth:
\* not in a List, a Map, an Operator's operands, nor in the values of a Select's cases.
C11_NoVariableRefLeft == Evaluated => ~ContainsVariableRef(evaluated)

\* Outside the Select nodes, which are returned as they are, no VariableRef is left.
NoVariableRefOutsideSelect == Evaluated => ~HasVariableRef(evaluated)

-----------------------------------------------------------------------------
(* module_types.py: the handlers. A dict that is built key by key is the   *)
(* sequence of its items, as above.                                        *)

\* " ".join(strs)
RECURSIVE Join(_)
Join(strs) ==
    IF strs = <<>> THEN ""
    ELSE IF Len(strs) = 1 THEN strs[1]
    ELSE strs[1] \o " " \o Join(Tail(strs))

extract_map(expr) == IF expr.t = "Map" THEN expr ELSE None

\* prop = module.get(n); if prop: extract_string_list(prop). An expression is never
\* falsy, so the test is one for None.
StringsAt(m, n) ==
    IF ModuleGet(m, n) # None THEN extract_string_list(ModuleGet(m, n)) ELSE <<>>

\* A slip in lines 81 and 99: the first overlay of arch is taken, whatever target_arch is.
ArchStrings_first_overlay(m, arch, n) ==
    LET arch_prop == ModuleGet(m, "arch")
        arch_specific == arch_prop.properties[1].value
        arch_values == PropsGet(arch_specific.properties, n)
    IN  IF arch_prop # None /\ arch_prop.t = "Map" /\ arch_prop.properties # <<>>
        THEN IF arch_specific.t = "Map"
             THEN IF arch_values # None THEN extract_string_list(arch_values) ELSE <<>>
             ELSE <<>>
        ELSE <<>>

\* Lines 77 to 85 and 95 to 103: the strings of property n of arch.<target_arch>.
ArchStrings(m, arch, n) ==
    LET arch_prop == ModuleGet(m, "arch")
        arch_specific == PropsGet(extract_map(arch_prop).properties, arch)
        arch_values == PropsGet(arch_specific.properties, n)
    IN  IF arch_prop # None /\ arch_prop.t = "Map"
        THEN IF arch_specific # None /\ arch_specific.t = "Map"
             THEN IF arch_values # None THEN extract_string_list(arch_values) ELSE <<>>
             ELSE <<>>
        ELSE <<>>

get_srcs(m, arch) == StringsAt(m, "srcs") \o ArchStrings(m, arch, "srcs")

get_cflags(m, arch) == StringsAt(m, "cflags") \o ArchStrings(m, arch, "cflags")

get_include_dirs(m) == StringsAt(m, "local_include_dirs") \o StringsAt(m, "include_dirs")

get_export_include_dirs(m) == StringsAt(m, "export_include_dirs")

\* f"external/{lib_name}.bst" for each lib_name
RECURSIVE LibRefs(_)
LibRefs(lib_names) ==
    IF lib_names = <<>> THEN <<>>
    ELSE <<"external/" \o Head(lib_names) \o ".bst">> \o LibRefs(Tail(lib_names))

\* A slip in lines 124 and 125: shared_libs taken before static_libs.
get_lib_deps_shared_first(m) ==
    LibRefs(StringsAt(m, "shared_libs")) \o LibRefs(StringsAt(m, "static_libs"))
    \o LibRefs(StringsAt(m, "whole_static_libs")) \o LibRefs(StringsAt(m, "header_libs"))

get_lib_deps(m) ==
    LibRefs(StringsAt(m, "static_libs")) \o LibRefs(StringsAt(m, "shared_libs"))
    \o LibRefs(StringsAt(m, "whole_static_libs")) \o LibRefs(StringsAt(m, "header_libs"))

\* The directory names of the include properties, in the order sorted() gives them.
SortedDirs == <<"include", "src">>

SetOf(seq) == {seq[i] : i \in DOMAIN seq}

\* sorted(set(dirs))
SortedSet(dirs) == SelectSeq(SortedDirs, LAMBDA d : d \in SetOf(dirs))

RECURSIVE IncludeFlags(_)
IncludeFlags(dirs) ==
    IF dirs = <<>> THEN <<>> ELSE <<"-I" \o Head(dirs)>> \o IncludeFlags(Tail(dirs))

\* [{"kind": "local_external", "path": source_dir}] if source_dir else []
SourcesOf(source_dir) ==
    IF source_dir # "" THEN <<[kind |-> "local_external", path |-> source_dir]>> ELSE <<>>

\* not module.name: no String name, or the empty one.
NoName(m) == ~ModuleHasName(m) \/ ModuleName(m) = ""

\* The element of CcLibraryStaticHandler.convert and CcBinaryHandler.convert, which
\* differ by build-type and by the key the name goes under.
CcElement(m, arch, source_dir, build_type, name_key) ==
    LET name == ModuleName(m)
        cflags == get_cflags(m, arch)
        dirs == get_include_dirs(m) \o get_export_include_dirs(m)
        named == <<Property("build-type", build_type), Property(name_key, name),
                   Property("src-files", Join(get_srcs(m, arch)))>>
        flagged == IF cflags # <<>>
                   THEN Append(named, Property("extra-cflags", Join(cflags)))
                   ELSE named
        included == IF dirs # <<>>
                    THEN Append(flagged, Property("include-flags",
                                                  Join(IncludeFlags(SortedSet(dirs)))))
                    ELSE flagged
    IN  [filename |-> name \o ".bst",
         content |-> [kind |-> "aosp_cc",
                      depends |-> <<"base/aosp-sdk.bst">> \o get_lib_deps(m),
                      sources |-> SourcesOf(source_dir),
                      variables |-> included]]

\* PrebuiltEtcHandler.convert, past the tests of name and src.
PrebuiltElement(m, source_dir) ==
    [filename |-> ModuleName(m) \o ".bst",
     content |-> [kind |-> "import",
                  sources |-> SourcesOf(source_dir),
                  config |-> <<Property("source", extract_string(ModuleGet(m, "src"))),
                               Property("target", "/etc")>>]]

\* A slip in lines 217 to 219: only a missing src is tested.
NoSrc_absent_only(m) == ModuleGet(m, "src") = None

\* src_prop is None, or extract_string gives None or "" for it.
NoSrc(m) == ModuleGet(m, "src").t # "String" \/ ModuleGet(m, "src").value = ""

SkippedTypes ==
    {"package", "license", "ndk_headers", "ndk_library", "cc_test", "cc_test_host",
     "cc_fuzz", "cc_benchmark", "genrule", "filegroup", "vndk_prebuilt_shared"}

NoHandler == "None"

\* A slip in line 260: the SkippedHandler for the types that no handler lists.
get_handler_default_skipped(module_type) ==
    CASE module_type = "cc_library_static" -> "CcLibraryStaticHandler"
      [] module_type = "cc_library_shared" -> "CcLibrarySharedHandler"
      [] module_type = "cc_library" -> "CcLibraryHandler"
      [] module_type \in {"cc_binary", "cc_binary_host"} -> "CcBinaryHandler"
      [] module_type = "cc_defaults" -> "CcDefaultsHandler"
      [] module_type \in {"prebuilt_etc", "prebuilt_etc_host"} -> "PrebuiltEtcHandler"
      [] OTHER -> "SkippedHandler"

\* get_handler(module_type): the first handler of _HANDLERS that can_handle it.
get_handler(module_type) ==
    CASE module_type = "cc_library_static" -> "CcLibraryStaticHandler"
      [] module_type = "cc_library_shared" -> "CcLibrarySharedHandler"
      [] module_type = "cc_library" -> "CcLibraryHandler"
      [] module_type \in {"cc_binary", "cc_binary_host"} -> "CcBinaryHandler"
      [] module_type = "cc_defaults" -> "CcDefaultsHandler"
      [] module_type \in {"prebuilt_etc", "prebuilt_etc_host"} -> "PrebuiltEtcHandler"
      [] module_type \in SkippedTypes -> "SkippedHandler"
      [] OTHER -> NoHandler

\* A slip in lines 197 to 202: CcDefaultsHandler made a CcLibraryStaticHandler.
convert_defaults_as_library(handler, m, arch, source_dir) ==
    CASE handler \in {"CcLibraryStaticHandler", "CcDefaultsHandler"} ->
            IF NoName(m) THEN None ELSE CcElement(m, arch, source_dir, "static", "lib-name")
      [] handler \in {"CcLibrarySharedHandler", "CcLibraryHandler"} ->
            IF NoName(m) THEN None ELSE CcElement(m, arch, source_dir, "shared", "lib-name")
      [] handler = "CcBinaryHandler" ->
            IF NoName(m) THEN None
            ELSE CcElement(m, arch, source_dir, "binary", "binary-name")
      [] handler = "PrebuiltEtcHandler" ->
            IF NoName(m) \/ NoSrc(m) THEN None ELSE PrebuiltElement(m, source_dir)
      [] OTHER -> None

\* handler.convert(module, target_arch, source_dir): an element, or None.
convert(handler, m, arch, source_dir) ==
    CASE handler = "CcLibraryStaticHandler" ->
            IF NoName(m) THEN None ELSE CcElement(m, arch, source_dir, "static", "lib-name")
      [] handler \in {"CcLibrarySharedHandler", "CcLibraryHandler"} ->
            IF NoName(m) THEN None ELSE CcElement(m, arch, source_dir, "shared", "lib-name")
      [] handler = "CcBinaryHandler" ->
            IF NoName(m) THEN None
            ELSE CcElement(m, arch, source_dir, "binary", "binary-name")
      [] handler = "PrebuiltEtcHandler" ->
            IF NoName(m) \/ NoSrc(m) THEN None ELSE PrebuiltElement(m, source_dir)
      [] OTHER -> None

-----------------------------------------------------------------------------
(* converter.py. An Android.bp file is its path's directory, the definitions *)
(* written in it and, when its text does not lex or parse, the ParseError's  *)
(* message (else "").                                                        *)

BpFile(dir, defs, error) == [dir |-> dir, defs |-> defs, error |-> error]

IsAssignment(d) == "assigner" \in DOMAIN d

IsModule(d) == "type" \in DOMAIN d

\* File.assignments, and what add_file_variables picks from file.defs
FileAssignments(defs) == SelectSeq(defs, IsAssignment)

\* File.modules
FileModules(defs) == SelectSeq(defs, IsModule)

\* Evaluator.evaluate_module(m): the module with its values evaluated, or what the first
\* value to raise raised.
evaluate_module(scope, m) ==
    LET vs == [i \in DOMAIN m.properties |-> evaluate(scope, m.properties[i].value, {})]
    IN  IF AnyRaised(vs) THEN FirstRaised(vs)
        ELSE Module(m.type, [i \in DOMAIN vs |-> Property(m.properties[i].name, vs[i])])

ConversionResult == [elements |-> <<>>, skipped |-> <<>>, errors |-> <<>>, unsupported |-> <<>>]

\* str(e): of a RecursionError the text's end depends on where the limit was met.
ErrorText(e) ==
    IF e.t = "EvalError" THEN "Undefined variable: " \o e.name
    ELSE "maximum recursion depth exceeded"

\* f"{module.name}"
NameOrNone(m) == IF ModuleHasName(m) THEN ModuleName(m) ELSE "None"

\* f"{module.type} '{module.name or '?'}'"
TypeAndName(m) == m.type \o " '" \o (IF NoName(m) THEN "?" ELSE ModuleName(m)) \o "'"

EvaluationError(m, e) ==
    "Evaluation error for " \o m.type \o " '" \o NameOrNone(m) \o "': " \o ErrorText(e)

\* A slip in lines 63 to 67: the first module to raise ends the loop.
RECURSIVE EvaluateModules_aborting(_, _, _)
EvaluateModules_aborting(scope, modules, done) ==
    IF modules = <<>> THEN done
    ELSE LET evaluated_module == evaluate_module(scope, Head(modules))
         IN  IF ~IsModule(evaluated_module)
             THEN [done EXCEPT !.errors =
                      Append(@, EvaluationError(Head(modules), evaluated_module))]
             ELSE EvaluateModules_aborting(scope, Tail(modules),
                     [done EXCEPT !.evaluated_modules = Append(@, evaluated_module)])

\* convert_file, lines 60 to 67: [evaluated_modules, errors] after the loop.
RECURSIVE EvaluateModules(_, _, _)
EvaluateModules(scope, modules, done) ==
    IF modules = <<>> THEN done
    ELSE LET evaluated_module == evaluate_module(scope, Head(modules))
         IN  EvaluateModules(scope, Tail(modules),
                IF ~IsModule(evaluated_module)
                THEN [done EXCEPT !.errors =
                         Append(@, EvaluationError(Head(modules), evaluated_module))]
                ELSE [done EXCEPT !.evaluated_modules = Append(@, evaluated_module)])

\* os.path.join(output_prefix, filename), for a prefix that does not end with "/" and a
\* filename that does not start with one.
PathJoin(prefix, filename) == prefix \o "/" \o filename

\* A slip in lines 79 to 81: no continue after the unsupported entry, so that the
\* module, which no handler converts, is reported as skipped too.
ConvertModule_no_continue(registry, m, arch, source_dir, prefix, res) ==
    LET handler == get_handler(m.type)
        element == convert(handler, resolve(registry, m), arch, source_dir)
        reported == IF handler = NoHandler
                    THEN [res EXCEPT !.unsupported = Append(@, TypeAndName(m))]
                    ELSE res
    IN  IF handler = NoHandler \/ element = None
        THEN [reported EXCEPT !.skipped = Append(@, TypeAndName(m))]
        ELSE [res EXCEPT !.elements =
                 Append(@, IF prefix # ""
                           THEN [element EXCEPT !.filename = PathJoin(prefix, @)]
                           ELSE element)]

\* convert_file, lines 76 to 106: the body of the loop over evaluated_modules.
ConvertModule(registry, m, arch, source_dir, prefix, res) ==
    LET handler == get_handler(m.type)
        element == convert(handler, resolve(registry, m), arch, source_dir)
    IN  IF handler = NoHandler
        THEN [res EXCEPT !.unsupported = Append(@, TypeAndName(m))]
        ELSE IF element = None
        THEN [res EXCEPT !.skipped = Append(@, TypeAndName(m))]
        ELSE [res EXCEPT !.elements =
                 Append(@, IF prefix # ""
                           THEN [element EXCEPT !.filename = PathJoin(prefix, @)]
                           ELSE element)]

RECURSIVE ConvertModules(_, _, _, _, _, _)
ConvertModules(registry, modules, arch, source_dir, prefix, res) ==
    IF modules = <<>> THEN res
    ELSE ConvertModules(registry, Tail(modules), arch, source_dir, prefix,
                        ConvertModule(registry, Head(modules), arch, source_dir, prefix, res))

\* A slip in lines 69 to 84: a cc_defaults registered when the conversion loop comes
\* to it, so that a module is resolved against the cc_defaults before it.
RECURSIVE ConvertModules_registering(_, _, _, _, _, _)
ConvertModules_registering(registry, modules, arch, source_dir, prefix, res) ==
    IF modules = <<>> THEN res
    ELSE LET registered == register_defaults(registry, <<Head(modules)>>)
         IN  ConvertModules_registering(registered, Tail(modules), arch, source_dir, prefix,
                                        ConvertModule(registered, Head(modules), arch,
                                                      source_dir, prefix, res))

convert_file_registering_in_order(scope, registry, arch, file, prefix) ==
    IF file.error # ""
    THEN [variables |-> scope, defaults_registry |-> registry,
          result |-> [ConversionResult EXCEPT !.errors =
                         <<"Parse error in " \o file.dir \o "/Android.bp: " \o file.error>>]]
    ELSE LET bound == add_file_variables(scope, FileAssignments(file.defs))
             evaluation == EvaluateModules(bound, FileModules(file.defs),
                                           [evaluated_modules |-> <<>>, errors |-> <<>>])
         IN  [variables |-> bound,
              defaults_registry |-> register_defaults(registry, evaluation.evaluated_modules),
              result |-> ConvertModules_registering(registry, evaluation.evaluated_modules,
                                                    arch, file.dir, prefix,
                                                    [ConversionResult EXCEPT
                                                        !.errors = evaluation.errors])]

\* A slip in lines 57 to 67: the definitions taken one by one in source order, an
\* Assignment registered and a Module evaluated where it stands.
RECURSIVE EvaluateInOrder(_, _)
EvaluateInOrder(defs, done) ==
    IF defs = <<>> THEN done
    ELSE IF IsAssignment(Head(defs))
    THEN EvaluateInOrder(Tail(defs), [done EXCEPT !.variables = Assign(@, Head(defs))])
    ELSE LET evaluation == EvaluateModules(done.variables, <<Head(defs)>>,
                                           [evaluated_modules |-> done.evaluated_modules,
                                            errors |-> done.errors])
         IN  EvaluateInOrder(Tail(defs),
                             [done EXCEPT !.evaluated_modules = evaluation.evaluated_modules,
                                          !.errors = evaluation.errors])

convert_file_in_order(scope, registry, arch, file, prefix) ==
    IF file.error # ""
    THEN [variables |-> scope, defaults_registry |-> registry,
          result |-> [ConversionResult EXCEPT !.errors =
                         <<"Parse error in " \o file.dir \o "/Android.bp: " \o file.error>>]]
    ELSE LET evaluation == EvaluateInOrder(file.defs, [variables |-> scope,
                                                       evaluated_modules |-> <<>>,
                                                       errors |-> <<>>])
             registered == register_defaults(registry, evaluation.evaluated_modules)
         IN  [variables |-> evaluation.variables, defaults_registry |-> registered,
              result |-> ConvertModules(registered, evaluation.evaluated_modules, arch,
                                        file.dir, prefix,
                                        [ConversionResult EXCEPT !.errors = evaluation.errors])]

\* A slip in lines 50 to 55: the definitions before the failure position are converted.
convert_file_partial(scope, registry, arch, file, prefix) ==
    LET bound == add_file_variables(scope, FileAssignments(file.defs))
        evaluation == EvaluateModules(bound, FileModules(file.defs),
                                      [evaluated_modules |-> <<>>, errors |-> <<>>])
        registered == register_defaults(registry, evaluation.evaluated_modules)
        parse_errors == IF file.error # ""
                        THEN <<"Parse error in " \o file.dir \o "/Android.bp: "
                                 \o file.error>>
                        ELSE <<>>
    IN  [variables |-> bound, defaults_registry |-> registered,
         result |-> ConvertModules(registered, evaluation.evaluated_modules, arch,
                                   file.dir, prefix,
                                   [ConversionResult EXCEPT
                                       !.errors = parse_errors \o evaluation.errors])]

\* Converter.convert_file(bp_path, output_prefix) on a Converter whose evaluator holds
\* scope and whose defaults_resolver holds registry: the two after the call, and the
\* ConversionResult returned.
convert_file(scope, registry, arch, file, prefix) ==
    IF file.error # ""
    THEN [variables |-> scope, defaults_registry |-> registry,
          result |-> [ConversionResult EXCEPT !.errors =
                         <<"Parse error in " \o file.dir \o "/Android.bp: " \o file.error>>]]
    ELSE LET bound == add_file_variables(scope, FileAssignments(file.defs))
             evaluation == EvaluateModules(bound, FileModules(file.defs),
                                           [evaluated_modules |-> <<>>, errors |-> <<>>])
             registered == register_defaults(registry, evaluation.evaluated_modules)
         IN  [variables |-> bound, defaults_registry |-> registered,
              result |-> ConvertModules(registered, evaluation.evaluated_modules, arch,
                                        file.dir, prefix,
                                        [ConversionResult EXCEPT !.errors = evaluation.errors])]

-----------------------------------------------------------------------------
(* The Converter's operations. The caller takes a ConversionResult before it *)
(* converts the next file.                                                   *)

NoCall == Idle /\ module = None /\ input = None /\ result = None

\* Converter(target_arch=arch): a new Evaluator and a new DefaultsResolver.
NewConverter(arch) ==
    /\ NoCall
    /\ target_arch' = arch
    /\ variables' = [n \in Identifiers |-> None]
    /\ defaults_registry' = <<>>
    /\ UNCHANGED <<bp_file, output_prefix, result, written>>
    /\ UNCHANGED <<parser_vars, heap_vars>>
    /\ UNCHANGED <<module, resolved, input, evaluated, reevaluated>>
    /\ UNCHANGED collect_vars

\* Converter.convert_file(bp_path, output_prefix), call to return.
ConvertFile(file, prefix) ==
    LET returned == convert_file(variables, defaults_registry, target_arch, file, prefix)
    IN  /\ NoCall
        /\ SumBindings(returned.variables, Identifiers) <= MaxBindings
        /\ bp_file' = file
        /\ output_prefix' = prefix
        /\ variables' = returned.variables
        /\ defaults_registry' = returned.defaults_registry
        /\ result' = returned.result
        /\ UNCHANGED <<target_arch, written>>
        /\ UNCHANGED <<parser_vars, heap_vars>>
        /\ UNCHANGED <<module, resolved, input, evaluated, reevaluated>>
        /\ UNCHANGED collect_vars

\* The caller has read the ConversionResult.
TakeResult ==
    /\ result # None
    /\ bp_file' = None
    /\ output_prefix' = ""
    /\ result' = None
    /\ written' = <<>>
    /\ UNCHANGED <<target_arch, variables, defaults_registry>>
    /\ UNCHANGED <<parser_vars, heap_vars>>
    /\ UNCHANGED <<module, resolved, input, evaluated, reevaluated>>
    /\ UNCHANGED collect_vars

-----------------------------------------------------------------------------
(* Files of assignments, and the variables looked up after them. *)

TwoString(n) == ListExpr(<<StringExpr(n \o "2")>>)

AssignedLists(n) == {OneString(n), TwoString(n)}

ListAssignments ==
    UNION {{Assignment(n, v, a) : v \in AssignedLists(n), a \in {"=", "+="}} :
             n \in Identifiers}

AssignmentFiles ==
    {BpFile("/aosp/vars", defs, "") : defs \in SeqsUpTo(ListAssignments, MaxAssignments) \ {<<>>}}

\* A look-up needs no Converter; it is made while the last file is still at hand.
NextAssign ==
    \/ \E file \in AssignmentFiles : ConvertFile(file, "")
    \/ \E n \in Identifiers : input = None /\ result # None /\ Evaluate(VariableRef(n))
    \/ TakeEvaluated
    \/ input = None /\ TakeResult

SpecAssign == Init /\ [][NextAssign]_vars

-----------------------------------------------------------------------------
(* Properties of add_file_variables. *)

\* convert_file has returned for bp_file.
Converted == bp_file # None /\ result # None

\* This step is a convert_file call.
ConvertStep == bp_file = None /\ bp_file' # None

\* The assignments to n among defs, in source order.
AssignmentsTo(n, defs) == SelectSeq(FileAssignments(defs), LAMBDA d : d.name = n)

\* The position of the last '=' in the assignments as, or 0.
LastReplacing(as) ==
    IF \E i \in DOMAIN as : as[i].assigner = "=" 
    THEN CHOOSE i \in DOMAIN as : as[i].assigner = "=" /\ \A j \in DOMAIN as : j > i => as[j].assigner = "+="
    ELSE 0

\* base + v1 + v2 + ..., for the values of the assignments as.
RECURSIVE PlusChain(_, _)
PlusChain(base, as) ==
    IF as = <<>> THEN base
    ELSE PlusChain(OperatorExpr(base, "+", Head(as).value), Tail(as))

\* What a name that was bound to prior (None: unbound) is bound to after the assignments
\* as to it: the last '=' starts anew, with none of them the prior binding goes on, and
\* a first '+=' of an unbound name is a '='; each later '+=' makes an Operator node.
Rebound(prior, as) ==
    LET k == LastReplacing(as)
    IN  IF as = <<>> THEN prior
        ELSE IF k > 0 THEN PlusChain(as[k].value, SubSeq(as, k + 1, Len(as)))
        ELSE IF prior # None THEN PlusChain(prior, as)
        ELSE PlusChain(as[1].value, Tail(as))

\* The file at hand ends, for the name n, with n = L1 and then n += L2.
SetThenAdded(n, L1, L2) ==
    LET as == AssignmentsTo(n, bp_file.defs)
    IN  /\ Len(as) >= 2
        /\ as[Len(as) - 1] = Assignment(n, L1, "=")
        /\ as[Len(as)] = Assignment(n, L2, "+=")

\* C12: add_file_variables takes the assignments in source order: '=' replaces a prior
\* binding, '+=' with a prior binding binds Operator(prior, '+', value), '+=' without
\* one is a '='; so after a = L1 and a += L2, both Lists, a evaluates to L1 ++ L2.
C12_AssignmentsInOrder ==
    /\ [][ConvertStep =>
            \A n \in Identifiers :
                variables'[n] = Rebound(variables[n], AssignmentsTo(n, bp_file'.defs))]_vars
    /\ [](\A n \in Identifiers : \A L1, L2 \in AssignedLists(n) :
            (Converted /\ SetThenAdded(n, L1, L2) /\ input = VariableRef(n))
                => evaluated = ListExpr(L1.values \o L2.values))

\* x = ["x2"] and x += ["x1"] were read into a scope that had x bound, and x looked up.
C12_Witness ==
    /\ Converted
    /\ bp_file.defs = <<Assignment("x", TwoString("x"), "="),
                        Assignment("x", OneString("x"), "+=")>>
    /\ variables["x"] = OperatorExpr(TwoString("x"), "+", OneString("x"))
    /\ variables["y"] # None
    /\ input = VariableRef("x")
    /\ evaluated = ListExpr(<<StringExpr("x2"), StringExpr("x1")>>)

\* A += of an unbound name bound it as a = would, and one of a bound name chained it.
AddedUnboundAndBound ==
    /\ Converted
    /\ bp_file.defs = <<Assignment("y", OneString("y"), "+="),
                        Assignment("x", OneString("x"), "+=")>>
    /\ variables["y"] = OneString("y")
    /\ variables["x"] = OperatorExpr(TwoString("x"), "+", OneString("x"))

-----------------------------------------------------------------------------
(* Files of modules: a cc_defaults and the library that names it, a library  *)
(* whose srcs are a variable and a module of a type without a handler, after *)
(* assignments to the variable or without them.                              *)

MaxDefs == 3

\* A cc_defaults with srcs: x, which raises while x is unbound.
CcDefaultsDx ==
    Module("cc_defaults", <<Property("name", StringExpr("D")),
                            Property("cflags", ListExpr(<<StringExpr("-d")>>)),
                            Property("srcs", VariableRef("x"))>>)

LibraryL ==
    Module("cc_library_static", <<Property("name", StringExpr("L")),
                                  Property("defaults", ListExpr(<<StringExpr("D")>>)),
                                  Property("srcs", ListExpr(<<StringExpr("l.c")>>))>>)

LibraryM ==
    Module("cc_library_static", <<Property("name", StringExpr("M")),
                                  Property("srcs", VariableRef("x"))>>)

JavaLibraryJ == Module("java_library", <<Property("name", StringExpr("J"))>>)

ConvertDefs ==
    {Assignment("x", OneString("x"), "="), Assignment("x", TwoString("x"), "+="),
     CcDefaultsDx, LibraryL, LibraryM, JavaLibraryJ}

\* str(e) of the ParseError for a module that is cut off after "name:".
ParseErrorText == "line 5, col 1: Unexpected token in expression: EOF ('')"

\* The files that parse, and the files whose text is cut off after the definitions.
ParsedFiles == {BpFile("/aosp/lib", defs, "") : defs \in SeqsUpTo(ConvertDefs, MaxDefs)}

BrokenFiles ==
    {BpFile("/aosp/lib", defs, ParseErrorText) : defs \in SeqsUpTo(ConvertDefs, MaxDefs - 2)}

NextConvert ==
    \/ NewConverter("x86_64")
    \/ \E file \in ParsedFiles \cup BrokenFiles : ConvertFile(file, "")
    \/ TakeResult

SpecConvert == Init /\ [][NextConvert]_vars

-----------------------------------------------------------------------------
(* Properties of convert_file. *)

\* The dict items has value under key.
HasItem(items, key, value) == \E i \in DOMAIN items : items[i] = Property(key, value)

\* Evaluating the module m raises in scope.
Fails(scope, m) == ~IsModule(evaluate_module(scope, m))

\* The modules among defs whose evaluation raises in scope, in source order.
FailingModules(scope, defs) == SelectSeq(FileModules(defs), LAMBDA m : Fails(scope, m))

\* defs with the modules whose evaluation raises taken out.
WithoutFailing(scope, defs) ==
    SelectSeq(defs, LAMBDA d : IsAssignment(d) \/ ~Fails(scope, d))

\* The module m without the values that raise in scope: m, had it not been an error.
Repaired(scope, m) ==
    Module(m.type, SelectSeq(m.properties,
                             LAMBDA p : ~Raised(evaluate(scope, p.value, {}))))

\* defs with each module whose evaluation raises written without the values that raise.
WithRepaired(scope, defs) ==
    [i \in DOMAIN defs |->
        IF IsModule(defs[i]) /\ Fails(scope, defs[i]) THEN Repaired(scope, defs[i])
        ELSE defs[i]]

\* What the loop of lines 76 to 106 adds to an empty ConversionResult for the module m.
Outcome(registry, m, arch, source_dir, prefix) ==
    ConvertModule(registry, m, arch, source_dir, prefix, ConversionResult)

\* This step converts a file that parses.
ConvertParsedStep == ConvertStep /\ bp_file'.error = ""

\* One errors entry for each module that raises, and for the others the entries a file
\* without the modules that raise gives.
FailingOmitted ==
    LET failing == FailingModules(variables', bp_file'.defs)
        without == convert_file(variables, defaults_registry, target_arch,
                                BpFile(bp_file'.dir,
                                       WithoutFailing(variables', bp_file'.defs), ""),
                                output_prefix')
    IN  /\ result'.errors =
              [i \in DOMAIN failing |->
                  EvaluationError(failing[i], evaluate_module(variables', failing[i]))]
        /\ Len(result'.elements) + Len(result'.skipped) + Len(result'.unsupported)
              = Len(FileModules(bp_file'.defs)) - Len(failing)
        /\ result'.elements = without.result.elements
        /\ result'.skipped = without.result.skipped
        /\ result'.unsupported = without.result.unsupported
        /\ defaults_registry' = without.defaults_registry

\* Each module that does not raise gets the entry it gets in the file where the modules
\* that raise are written without the values that raise.
OthersAsIfNoneFailed ==
    LET defs == bp_file'.defs
        repaired == convert_file(variables, defaults_registry, target_arch,
                                 BpFile(bp_file'.dir, WithRepaired(variables', defs), ""),
                                 output_prefix')
    IN  \A i \in DOMAIN defs :
            (IsModule(defs[i]) /\ ~Fails(variables', defs[i])) =>
                Outcome(defaults_registry', evaluate_module(variables', defs[i]),
                        target_arch, bp_file'.dir, output_prefix')
                  = Outcome(repaired.defaults_registry,
                            evaluate_module(variables', defs[i]),
                            target_arch, bp_file'.dir, output_prefix')

\* C13, as stated: a module whose evaluation raises gets exactly one errors entry and no
\* element, skipped or unsupported entry, and every other module of the file is converted
\* exactly as it would be if the failing module were not an error.
C13_OthersAsIfNotAnError ==
    [][ConvertParsedStep => (FailingOmitted /\ OthersAsIfNoneFailed)]_vars

\* C13, amended: a module whose evaluation raises gets exactly one errors entry and no
\* element, skipped or unsupported entry, and every other module of the file is converted
\* exactly as in the file without the failing module: a cc_defaults that raises is not
\* registered, and the modules that name it inherit nothing from it.
C13_FailingModuleOmitted == [][ConvertParsedStep => FailingOmitted]_vars

\* cc_defaults D raised on srcs: x; L, which names D, was converted without D's cflags
\* and J reported.
C13_Witness ==
    /\ Converted
    /\ bp_file.defs = <<CcDefaultsDx, LibraryL, JavaLibraryJ>>
    /\ output_prefix = ""
    /\ result.errors = <<"Evaluation error for cc_defaults 'D': Undefined variable: x">>
    /\ result.elements =
          <<[filename |-> "L.bst",
             content |-> [kind |-> "aosp_cc",
                          depends |-> <<"base/aosp-sdk.bst">>,
                          sources |-> SourcesOf("/aosp/lib"),
                          variables |-> <<Property("build-type", "static"),
                                          Property("lib-name", "L"),
                                          Property("src-files", "l.c")>>]]>>
    /\ result.skipped = <<>>
    /\ result.unsupported = <<"java_library 'J'">>

\* A library raised between two modules that were converted.
FailedBetween ==
    /\ Converted
    /\ bp_file.defs = <<JavaLibraryJ, LibraryM, LibraryL>>
    /\ result.errors = <<"Evaluation error for cc_library_static 'M': Undefined variable: x">>
    /\ Len(result.elements) = 1 /\ Len(result.unsupported) = 1
    /\ result.elements[1].filename = "L.bst"

\* C14: when lexing or parsing of the file fails, the ConversionResult has exactly one
\* errors entry and its elements, skipped and unsupported are empty, also when the
\* modules before the failure position are well-formed.
C14_ParseErrorAborts ==
    (Converted /\ bp_file.error # "") =>
        /\ result.errors = <<"Parse error in " \o bp_file.dir \o "/Android.bp: "
                               \o bp_file.error>>
        /\ result.elements = <<>>
        /\ result.skipped = <<>>
        /\ result.unsupported = <<>>

\* The text was cut off after the well-formed cc_library_static L.
C14_Witness ==
    /\ Converted
    /\ bp_file = BpFile("/aosp/lib", <<LibraryL>>, ParseErrorText)
    /\ Len(result.errors) = 1
    /\ result.elements = <<>>

\* The scope of a new Evaluator.
EmptyScope == [n \in Identifiers |-> None]

\* C17: each conversion starts with an empty variable scope and an empty defaults
\* registry: the ConversionResult of a file is the one a new Converter gives for it,
\* whatever was assigned or declared in the files converted before.
C17_EachFileStartsEmpty ==
    Converted =>
        result = convert_file(EmptyScope, <<>>, target_arch, bp_file, output_prefix).result

\* A file with x += ["x2"], M and L was converted after one with x = ["x1"] and D: M has
\* the srcs of both files and L the srcs and cflags of D.
EarlierFileVisible ==
    /\ Converted
    /\ bp_file.defs = <<Assignment("x", TwoString("x"), "+="), LibraryM, LibraryL>>
    /\ Len(result.elements) = 2
    /\ HasItem(result.elements[1].content.variables, "src-files", "x1 x2")
    /\ HasItem(result.elements[2].content.variables, "src-files", "x1 l.c")
    /\ HasItem(result.elements[2].content.variables, "extra-cflags", "-d")

-----------------------------------------------------------------------------
(* Files of one module of any type, with or without a name, a src and a      *)
(* value that raises, alone or next to a library that is converted.          *)

CcTypes == {"cc_library_static", "cc_library_shared", "cc_library", "cc_binary",
            "cc_binary_host"}

PrebuiltTypes == {"prebuilt_etc", "prebuilt_etc_host"}

\* Types that no handler of _HANDLERS lists.
UnknownTypes == {"java_library", "my_unknown_module"}

\* supported_types(): the MODULE_TYPES of all the handlers.
supported_types == CcTypes \cup PrebuiltTypes \cup {"cc_defaults"} \cup SkippedTypes

ModuleTypes == supported_types \cup UnknownTypes

\* No name, a String name, a name that is not a String, the empty name.
NameShapes ==
    {<<>>, <<Property("name", StringExpr("n"))>>, <<Property("name", IntExpr(7))>>,
     <<Property("name", StringExpr(""))>>}

\* No src, a String src, a src that is not a String, the empty src.
SrcShapes ==
    {<<>>, <<Property("src", StringExpr("n.conf"))>>,
     <<Property("src", ListExpr(<<StringExpr("n.conf")>>))>>,
     <<Property("src", StringExpr(""))>>}

\* No srcs, or srcs: x, which raises: no file of these assigns x.
SrcsShapes == {<<>>, <<Property("srcs", VariableRef("x"))>>}

TypedModules ==
    {Module(ty, name \o src \o srcs) :
        ty \in ModuleTypes, name \in NameShapes, src \in SrcShapes, srcs \in SrcsShapes}

LibraryK ==
    Module("cc_library_static", <<Property("name", StringExpr("K")),
                                  Property("srcs", ListExpr(<<StringExpr("k.c")>>))>>)

TypedFiles ==
    UNION {{BpFile("/aosp/lib", <<m>>, ""), BpFile("/aosp/lib", <<m, LibraryK>>, ""),
            BpFile("/aosp/lib", <<LibraryK, m>>, "")} : m \in TypedModules}

NextTypes ==
    \/ NewConverter("x86_64")
    \/ \E file \in TypedFiles : ConvertFile(file, "external")
    \/ TakeResult

SpecTypes == Init /\ [][NextTypes]_vars

-----------------------------------------------------------------------------
(* Properties of the dispatch on the module type. In the step that converts  *)
(* a file, what the file gives is compared with what the file without some   *)
(* of its modules gives on the same Converter.                               *)

\* The ConversionResult of the file of this step without the modules that Is holds of.
RestResult(Is(_)) ==
    convert_file(variables, defaults_registry, target_arch,
                 BpFile(bp_file'.dir,
                        SelectSeq(bp_file'.defs, LAMBDA d : ~(IsModule(d) /\ Is(d))), ""),
                 output_prefix').result

\* f"{module.type} '{module.name or '?'}'" for each of the modules ms.
TypeAndNames(ms) == [i \in DOMAIN ms |-> TypeAndName(ms[i])]

\* The entries that are the entry of one of the modules ms, in the order of entries.
EntriesOf(entries, ms) ==
    SelectSeq(entries, LAMBDA e : \E i \in DOMAIN ms : e = TypeAndName(ms[i]))

\* The entries that are the entry of none of the modules ms.
EntriesOfOthers(entries, ms) ==
    SelectSeq(entries, LAMBDA e : \A i \in DOMAIN ms : e # TypeAndName(ms[i]))

\* The errors entries of the modules of defs whose evaluation raises in scope.
EvaluationErrors(scope, defs) ==
    LET failing == FailingModules(scope, defs)
    IN  [i \in DOMAIN failing |->
            EvaluationError(failing[i], evaluate_module(scope, failing[i]))]

\* No handler is registered for the type of m.
Unknown(m) == m.type \notin supported_types

\* C15, as stated: every module of a parsed file whose type has no registered handler
\* is reported by exactly one entry "<type> '<name>'" in unsupported, adds nothing to
\* errors, and the remaining modules are converted as without it.
C15_UnknownTypeUnsupported ==
    [][ConvertParsedStep =>
          LET unknown == SelectSeq(FileModules(bp_file'.defs), Unknown)
              rest == RestResult(Unknown)
          IN  /\ result'.unsupported = TypeAndNames(unknown)
              /\ result'.errors = rest.errors
              /\ result'.elements = rest.elements
              /\ result'.skipped = rest.skipped]_vars

\* C15, amended: every module of a parsed file whose type has no registered handler and
\* whose evaluation does not raise is reported by exactly one entry "<type> '<name>'"
\* in unsupported ('?' for a name that is missing, empty or not a String), adds nothing
\* to errors, and the remaining modules are converted as without it; a module whose
\* evaluation raises has an errors entry and no unsupported entry, whatever its type.
C15_EvaluatedUnknownTypeUnsupported ==
    [][ConvertParsedStep =>
          LET unknown == SelectSeq(FileModules(bp_file'.defs),
                                   LAMBDA m : Unknown(m) /\ ~Fails(variables', m))
              rest == RestResult(LAMBDA m : Unknown(m) /\ ~Fails(variables', m))
          IN  /\ result'.unsupported = TypeAndNames(unknown)
              /\ result'.errors = rest.errors
              /\ result'.errors = EvaluationErrors(variables', bp_file'.defs)
              /\ result'.elements = rest.elements
              /\ result'.skipped = rest.skipped]_vars

\* my_unknown_module n was reported and the library after it converted.
C15_Witness ==
    /\ Converted
    /\ bp_file.defs = <<Module("my_unknown_module", <<Property("name", StringExpr("n"))>>),
                        LibraryK>>
    /\ result.unsupported = <<"my_unknown_module 'n'">>
    /\ result.errors = <<>>
    /\ Len(result.elements) = 1
    /\ result.elements[1].filename = "external/K.bst"

\* A java_library without a name whose srcs raise: an errors entry, nothing unsupported.
UnknownTypeRaised ==
    /\ Converted
    /\ bp_file.defs = <<LibraryK,
                        Module("java_library", <<Property("srcs", VariableRef("x"))>>)>>
    /\ result.unsupported = <<>>
    /\ result.errors = <<"Evaluation error for java_library 'None': Undefined variable: x">>

\* A cc_defaults module, or one of a type the SkippedHandler lists.
NeverConverted(m) == m.type = "cc_defaults" \/ m.type \in SkippedTypes

\* C16, as stated: a module of type cc_defaults or of a deliberately skipped type never
\* produces an element, whatever its properties, and is recorded by one entry in skipped.
C16_NeverConvertedSkipped ==
    [][ConvertParsedStep =>
          LET never == SelectSeq(FileModules(bp_file'.defs), NeverConverted)
          IN  /\ result'.elements = RestResult(NeverConverted).elements
              /\ EntriesOf(result'.skipped, never) = TypeAndNames(never)]_vars

\* C16, amended: a module of type cc_defaults or of a deliberately skipped type never
\* produces an element, whatever its properties; when its evaluation does not raise it
\* is recorded by one entry in skipped, and when it raises, by one entry in errors and
\* none in skipped.
C16_NeverConvertedSkippedOrError ==
    [][ConvertParsedStep =>
          LET never == SelectSeq(FileModules(bp_file'.defs), NeverConverted)
              evaluated_never == SelectSeq(never, LAMBDA m : ~Fails(variables', m))
          IN  /\ result'.elements = RestResult(NeverConverted).elements
              /\ EntriesOf(result'.skipped, never) = TypeAndNames(evaluated_never)
              /\ result'.errors = EvaluationErrors(variables', bp_file'.defs)]_vars

\* A cc_defaults with a name and a src was skipped after the library was converted.
C16_Witness ==
    /\ Converted
    /\ bp_file.defs = <<LibraryK,
                        Module("cc_defaults", <<Property("name", StringExpr("n")),
                                                Property("src", StringExpr("n.conf"))>>)>>
    /\ result.skipped = <<"cc_defaults 'n'">>
    /\ Len(result.elements) = 1
    /\ result.elements[1].filename = "external/K.bst"
    /\ "n" \in DOMAIN defaults_registry

\* A genrule whose srcs raise: an errors entry and no skipped entry.
SkippedTypeRaised ==
    /\ Converted
    /\ bp_file.defs = <<Module("genrule", <<Property("name", StringExpr("n")),
                                            Property("srcs", VariableRef("x"))>>)>>
    /\ result.skipped = <<>>
    /\ result.errors = <<"Evaluation error for genrule 'n': Undefined variable: x">>

\* A cc library or binary module without a String name, or a prebuilt_etc module without
\* a String name or without a String src.
Lacking(m) ==
    \/ m.type \in CcTypes /\ ~ModuleHasName(m)
    \/ m.type \in PrebuiltTypes /\ (~ModuleHasName(m) \/ ModuleGet(m, "src").t # "String")

\* C20, as stated: a cc library or binary module without a String name, and a
\* prebuilt_etc module without a String name or without a String src, produces no
\* element and no errors entry; it is recorded by exactly one skipped entry and the
\* conversion of the other modules is unaffected.
C20_LackingSkipped ==
    [][ConvertParsedStep =>
          LET lacking == SelectSeq(FileModules(bp_file'.defs), Lacking)
              rest == RestResult(Lacking)
          IN  /\ result'.elements = rest.elements
              /\ result'.errors = rest.errors
              /\ result'.unsupported = rest.unsupported
              /\ EntriesOf(result'.skipped, lacking) = TypeAndNames(lacking)
              /\ EntriesOfOthers(result'.skipped, lacking) = rest.skipped]_vars

\* C20, amended: a cc library or binary module without a String name, and a
\* prebuilt_etc module without a String name or without a String src, whose evaluation
\* does not raise produces no element and no errors entry; it is recorded by exactly
\* one skipped entry and the conversion of the other modules is unaffected. When its
\* evaluation raises it has an errors entry and no skipped entry.
C20_EvaluatedLackingSkipped ==
    [][ConvertParsedStep =>
          LET lacking == SelectSeq(FileModules(bp_file'.defs),
                                   LAMBDA m : Lacking(m) /\ ~Fails(variables', m))
              rest == RestResult(LAMBDA m : Lacking(m) /\ ~Fails(variables', m))
          IN  /\ result'.elements = rest.elements
              /\ result'.errors = rest.errors
              /\ result'.errors = EvaluationErrors(variables', bp_file'.defs)
              /\ result'.unsupported = rest.unsupported
              /\ EntriesOf(result'.skipped, lacking) = TypeAndNames(lacking)
              /\ EntriesOfOthers(result'.skipped, lacking) = rest.skipped]_vars

\* A prebuilt_etc whose src is a List was skipped and the library after it converted.
C20_Witness ==
    /\ Converted
    /\ bp_file.defs =
          <<Module("prebuilt_etc",
                   <<Property("name", StringExpr("n")),
                     Property("src", ListExpr(<<StringExpr("n.conf")>>))>>),
            LibraryK>>
    /\ result.skipped = <<"prebuilt_etc 'n'">>
    /\ result.errors = <<>>
    /\ Len(result.elements) = 1
    /\ result.elements[1].filename = "external/K.bst"

\* A cc_binary whose name is not a String was skipped.
NamelessBinarySkipped ==
    /\ Converted
    /\ bp_file.defs = <<Module("cc_binary", <<Property("name", IntExpr(7))>>)>>
    /\ result = [ConversionResult EXCEPT !.skipped = <<"cc_binary '?'">>]

\* A cc_library without a name whose srcs raise: an errors entry and no skipped entry.
LackingRaised ==
    /\ Converted
    /\ bp_file.defs = <<Module("cc_library", <<Property("srcs", VariableRef("x"))>>)>>
    /\ result = [ConversionResult EXCEPT
                    !.errors = <<"Evaluation error for cc_library 'None': Undefined variable: x">>]

\* A prebuilt_etc with a String name and a String src is an import element.
PrebuiltConverted ==
    /\ Converted
    /\ bp_file.defs = <<Module("prebuilt_etc_host",
                               <<Property("name", StringExpr("n")),
                                 Property("src", StringExpr("n.conf"))>>)>>
    /\ result.elements =
          <<[filename |-> "external/n.bst",
             content |-> [kind |-> "import",
                          sources |-> SourcesOf("/aosp/lib"),
                          config |-> <<Property("source", "n.conf"),
                                       Property("target", "/etc")>>]]>>

-----------------------------------------------------------------------------
(* Files of one cc library or binary module: with library lists of each kind, *)
(* or with srcs, cflags and overlays for two architectures.                   *)

\* What a library property is written as: nothing, one name, names with a repeat, a
\* value that is not a List. The names tell the property they are written under.
LibShapes(p, tag) ==
    {<<>>, <<Property(p, ListExpr(<<StringExpr(tag \o "1")>>))>>,
     <<Property(p, ListExpr(<<StringExpr(tag \o "2"), StringExpr(tag \o "1"),
                              StringExpr(tag \o "2")>>))>>,
     <<Property(p, StringExpr(tag \o "1"))>>}

LibModules ==
    {Module(ty, <<Property("name", StringExpr("n"))>> \o header \o whole \o shared \o static) :
        ty \in CcTypes, static \in LibShapes("static_libs", "s"),
        shared \in LibShapes("shared_libs", "h"),
        whole \in LibShapes("whole_static_libs", "w"),
        header \in LibShapes("header_libs", "d")}

TargetArchs == {"x86_64", "arm64"}

\* The overlay of an architecture: none, srcs, cflags, both, or a value that is no Map.
Overlays(a) ==
    {<<>>,
     <<Property(a, MapExpr(<<Property("srcs", ListExpr(<<StringExpr(a \o ".c")>>))>>))>>,
     <<Property(a, MapExpr(<<Property("cflags", ListExpr(<<StringExpr("-m" \o a)>>))>>))>>,
     <<Property(a, MapExpr(<<Property("srcs", ListExpr(<<StringExpr(a \o ".c")>>)),
                             Property("cflags", ListExpr(<<StringExpr("-m" \o a)>>))>>))>>,
     <<Property(a, StringExpr(a \o ".c"))>>}

\* No arch, an arch that is no Map, or a Map of overlays.
ArchShapes ==
    {<<>>, <<Property("arch", StringExpr("x86_64"))>>}
    \cup {<<Property("arch", MapExpr(x86 \o arm))>> :
             x86 \in Overlays("x86_64"), arm \in Overlays("arm64")}

SrcsOfModule ==
    {<<>>, <<Property("srcs", ListExpr(<<StringExpr("b.c"), StringExpr("a.c")>>))>>}

CflagsOfModule ==
    {<<>>, <<Property("cflags", ListExpr(<<StringExpr("-O2"), StringExpr("-Wall")>>))>>}

ArchModules ==
    {Module(ty, <<Property("name", StringExpr("n"))>> \o arch \o cflags \o srcs) :
        ty \in CcTypes, srcs \in SrcsOfModule, cflags \in CflagsOfModule,
        arch \in ArchShapes}

ElementFiles == {BpFile("/aosp/lib", <<m>>, "") : m \in LibModules \cup ArchModules}

NextElement ==
    \/ \E arch \in TargetArchs : NewConverter(arch)
    \/ \E file \in ElementFiles : \E prefix \in {"", "external"} : ConvertFile(file, prefix)
    \/ TakeResult

SpecElement == Init /\ [][NextElement]_vars

-----------------------------------------------------------------------------
(* Properties of the aosp_cc element. Each file here has one module, which   *)
(* has a name and evaluates to itself: the element, if any, is that module's. *)

\* The Strings of the List e in the order written; nothing for what is no List.
ListStrings(e) ==
    IF e.t = "List"
    THEN LET strings == SelectSeq(e.values, LAMBDA v : v.t = "String")
         IN  [i \in DOMAIN strings |-> strings[i].value]
    ELSE <<>>

\* "external/<lib>.bst" for each string of the property p of m.
ExternalRefs(m, p) ==
    LET libs == ListStrings(ModuleGet(m, p))
    IN  [i \in DOMAIN libs |-> "external/" \o libs[i] \o ".bst"]

\* The module of the file at hand and the element made of it.
TheModule == bp_file.defs[1]

TheElement == result.elements[1]

ElementEmitted ==
    /\ Converted /\ bp_file.error = ""
    /\ Len(bp_file.defs) = 1 /\ Len(result.elements) = 1
    /\ TheElement.content.kind = "aosp_cc"

\* C18: the depends of an emitted aosp_cc element is "base/aosp-sdk.bst" followed by
\* "external/<lib>.bst" for each string in static_libs, then shared_libs, then
\* whole_static_libs, then header_libs, in list order, none dropped, moved or merged.
C18_DependsInPropertyOrder ==
    ElementEmitted =>
        TheElement.content.depends =
            <<"base/aosp-sdk.bst">> \o ExternalRefs(TheModule, "static_libs")
            \o ExternalRefs(TheModule, "shared_libs")
            \o ExternalRefs(TheModule, "whole_static_libs")
            \o ExternalRefs(TheModule, "header_libs")

\* header_libs: ["d1"] was written first and static_libs, with a repeated name, last;
\* whole_static_libs is a String.
C18_Witness ==
    /\ ElementEmitted
    /\ TheModule.type = "cc_binary"
    /\ ModuleGet(TheModule, "header_libs") = ListExpr(<<StringExpr("d1")>>)
    /\ TheModule.properties[Len(TheModule.properties)].name = "static_libs"
    /\ ModuleGet(TheModule, "whole_static_libs") = StringExpr("w1")
    /\ TheElement.content.depends =
          <<"base/aosp-sdk.bst", "external/s2.bst", "external/s1.bst", "external/s2.bst",
            "external/h1.bst", "external/d1.bst">>

\* The value of property n in the overlay that arch names in the arch Map of m, or None.
Overlay(m, arch, n) ==
    LET arch_map == ModuleGet(m, "arch")
    IN  IF arch_map.t # "Map" THEN None
        ELSE IF PropsGet(arch_map.properties, arch).t # "Map" THEN None
        ELSE PropsGet(PropsGet(arch_map.properties, arch).properties, n)

\* property n ++ arch.<arch>.n
WithOverlay(m, arch, n) ==
    ListStrings(ModuleGet(m, n)) \o ListStrings(Overlay(m, arch, n))

\* The values the dict items has under key, in order.
ItemsAt(items, key) ==
    LET at == SelectSeq(items, LAMBDA item : item.name = key)
    IN  [i \in DOMAIN at |-> at[i].value]

NoOverlayForTarget ==
    /\ ElementEmitted
    /\ target_arch = "x86_64"
    /\ Overlay(TheModule, "arm64", "srcs") # None
    /\ Overlay(TheModule, "arm64", "cflags") # None
    /\ TheElement.content.variables =
          <<Property("build-type", "binary"), Property("binary-name", "n"),
            Property("src-files", "")>>

-----------------------------------------------------------------------------
(* converter.py: write_elements and _format_bst. A text is a string, which is *)
(* a sequence of one-character strings.                                      *)

\* The characters of line 155.
QuotedChars == {"{", "}", "[", "]", "#", "&", "*", "!", "|", ">", "'", ",", "@", "%"}

\* any(c in value for c in chars)
AnyCharIn(value, chars) == \E i \in 1..Len(value) : SubSeq(value, i, i) \in chars

\* value.split(sep), sep one character
RECURSIVE Split(_, _)
Split(value, sep) ==
    IF ~AnyCharIn(value, {sep}) THEN <<value>>
    ELSE LET first == CHOOSE k \in 1..Len(value) :
                          /\ SubSeq(value, k, k) = sep
                          /\ \A j \in 1..(k - 1) : SubSeq(value, j, j) # sep
         IN  <<SubSeq(value, 1, first - 1)>> \o Split(SubSeq(value, first + 1, Len(value)), sep)

\* "\n".join(lines)
RECURSIVE JoinLines(_)
JoinLines(lines) ==
    IF lines = <<>> THEN ""
    ELSE IF Len(lines) = 1 THEN lines[1]
    ELSE lines[1] \o "\n" \o JoinLines(Tail(lines))

\* The lines a loop appends, one sequence of lines for each turn.
RECURSIVE Appended(_)
Appended(turns) == IF turns = <<>> THEN <<>> ELSE Head(turns) \o Appended(Tail(turns))

\* _format_bst, lines 131 to 135
DependsLines(element_dict) ==
    IF "depends" \in DOMAIN element_dict
    THEN <<"depends:">>
         \o [i \in DOMAIN element_dict.depends |-> "- " \o element_dict.depends[i]]
         \o <<"">>
    ELSE <<>>

\* _format_bst, lines 138 to 143
SourcesLines(element_dict) ==
    IF "sources" \in DOMAIN element_dict /\ element_dict.sources # <<>>
    THEN <<"sources:">>
         \o Appended([i \in DOMAIN element_dict.sources |->
                        <<"- kind: " \o element_dict.sources[i].kind,
                          "  path: " \o element_dict.sources[i].path>>])
         \o <<"">>
    ELSE <<>>

\* _format_bst, lines 149 to 158: one key of "variables", whose value is a str.
VariableLines(key, value) ==
    IF AnyCharIn(value, {"\n"})
    THEN LET vlines == Split(value, "\n")
         IN  <<"  " \o key \o ": |">> \o [i \in DOMAIN vlines |-> "    " \o vlines[i]]
    ELSE IF AnyCharIn(value, QuotedChars)
    THEN <<"  " \o key \o ": \"" \o value \o "\"">>
    ELSE <<"  " \o key \o ": " \o value>>

\* _format_bst, lines 146 to 159
VariablesLines(element_dict) ==
    IF "variables" \in DOMAIN element_dict
    THEN <<"variables:">>
         \o Appended([i \in DOMAIN element_dict.variables |->
                        VariableLines(element_dict.variables[i].name,
                                      element_dict.variables[i].value)])
         \o <<"">>
    ELSE <<>>

\* _format_bst, lines 162 to 166
ConfigLines(element_dict) ==
    IF "config" \in DOMAIN element_dict
    THEN <<"config:">>
         \o [i \in DOMAIN element_dict.config |->
               "  " \o element_dict.config[i].name \o ": " \o element_dict.config[i].value]
         \o <<"">>
    ELSE <<>>

format_bst(element_dict) ==
    JoinLines(<<"kind: " \o element_dict.kind, "">>
              \o DependsLines(element_dict) \o SourcesLines(element_dict)
              \o VariablesLines(element_dict) \o ConfigLines(element_dict))

\* Converter.write_elements(result, output_dir): one file for each element, in order.
WriteElements(output_dir) ==
    /\ result # None
    /\ written = <<>>
    /\ result.elements # <<>>
    /\ written' = [i \in DOMAIN result.elements |->
                     [filepath |-> PathJoin(output_dir, result.elements[i].filename),
                      content |-> format_bst(result.elements[i].content)]]
    /\ UNCHANGED <<target_arch, bp_file, output_prefix, result>>
    /\ UNCHANGED <<parser_vars, heap_vars>>
    /\ UNCHANGED <<resolver_vars, collect_vars, eval_vars, heap_vars>>

-----------------------------------------------------------------------------
(* Files whose elements carry plain strings, strings with a character of     *)
(* QuotedChars, and a string of two lines.                                   *)

WrittenFlags ==
    {<<>>, <<Property("cflags", ListExpr(<<StringExpr("-DX")>>))>>,
     <<Property("cflags", ListExpr(<<StringExpr("-Wl,-z"), StringExpr("-DX")>>))>>,
     <<Property("cflags", ListExpr(<<StringExpr("-DA\n-DB")>>))>>}

WrittenLibs ==
    {<<>>, <<Property("static_libs", ListExpr(<<StringExpr("libz")>>))>>,
     <<Property("static_libs", ListExpr(<<StringExpr("lib@1")>>))>>}

WrittenLibraries ==
    {Module("cc_library_static",
            <<Property("name", StringExpr("L")),
              Property("srcs", ListExpr(<<StringExpr("a.c")>>))>> \o flags \o libs) :
        flags \in WrittenFlags, libs \in WrittenLibs}

WrittenPrebuilts ==
    {Module("prebuilt_etc", <<Property("name", StringExpr("P")),
                              Property("src", StringExpr(src))>>) :
        src \in {"p.conf", "a,b.conf"}}

WrittenDirs == {"/aosp/lib", "/aosp/lib#1"}

WrittenFiles ==
    {BpFile(dir, <<m>>, "") : dir \in WrittenDirs, m \in WrittenLibraries \cup WrittenPrebuilts}
    \cup {BpFile(dir, <<l, p>>, "") :
            dir \in WrittenDirs, l \in WrittenLibraries, p \in WrittenPrebuilts}

NextFormat ==
    \/ \E file \in WrittenFiles : \E prefix \in {"", "external"} : ConvertFile(file, prefix)
    \/ WriteElements("elements")
    \/ TakeResult

SpecFormat == Init /\ [][NextFormat]_vars

-----------------------------------------------------------------------------
(* Properties of the serialized text. *)

\* A scalar as section 4.6 words it: double-quoted when it has a character of
\* QuotedChars, as it is otherwise.
Scalar(value) ==
    IF AnyCharIn(value, QuotedChars) THEN "\"" \o value \o "\"" ELSE value

\* The lines of a "variables" key under that rule; a value of several lines is a
\* block scalar.
ScalarVariableLines(key, value) ==
    IF AnyCharIn(value, {"\n"}) THEN VariableLines(key, value)
    ELSE <<"  " \o key \o ": " \o Scalar(value)>>

\* The text of an element with every scalar under that rule.
ScalarText(d) ==
    JoinLines(
        <<"kind: " \o d.kind, "">>
        \o (IF "depends" \in DOMAIN d
            THEN <<"depends:">> \o [i \in DOMAIN d.depends |-> "- " \o Scalar(d.depends[i])]
                 \o <<"">>
            ELSE <<>>)
        \o (IF "sources" \in DOMAIN d /\ d.sources # <<>>
            THEN <<"sources:">>
                 \o Appended([i \in DOMAIN d.sources |->
                                <<"- kind: " \o d.sources[i].kind,
                                  "  path: " \o Scalar(d.sources[i].path)>>])
                 \o <<"">>
            ELSE <<>>)
        \o (IF "variables" \in DOMAIN d
            THEN <<"variables:">>
                 \o Appended([i \in DOMAIN d.variables |->
                                ScalarVariableLines(d.variables[i].name, d.variables[i].value)])
                 \o <<"">>
            ELSE <<>>)
        \o (IF "config" \in DOMAIN d
            THEN <<"config:">>
                 \o [i \in DOMAIN d.config |->
                       "  " \o d.config[i].name \o ": " \o Scalar(d.config[i].value)]
                 \o <<"">>
            ELSE <<>>))

\* C21: in the text of every written element, each scalar (a variables value, a
\* config value, a depends entry, a sources path) that has a character of
\* { } [ ] # & * ! | > ' , @ % is double-quoted and every other one is unquoted.
C21_ScalarsQuotedBySpecialChars ==
    \A i \in DOMAIN written : written[i].content = ScalarText(result.elements[i].content)

\* The values of "variables" alone are quoted by that rule: the text is the one
\* with the scalars of depends, sources and config as they are.
VariablesText(d) ==
    JoinLines(<<"kind: " \o d.kind, "">> \o DependsLines(d) \o SourcesLines(d)
              \o (IF "variables" \in DOMAIN d
                  THEN <<"variables:">>
                       \o Appended([i \in DOMAIN d.variables |->
                                      ScalarVariableLines(d.variables[i].name,
                                                          d.variables[i].value)])
                       \o <<"">>
                  ELSE <<>>)
              \o ConfigLines(d))

OnlyVariablesQuoted ==
    \A i \in DOMAIN written : written[i].content = VariablesText(result.elements[i].content)

\* A library depending on lib@1 was written with the entry unquoted.
UnquotedDependsWritten ==
    /\ Len(written) = 1
    /\ written[1].content =
         "kind: aosp_cc\n\ndepends:\n- base/aosp-sdk.bst\n- external/lib@1.bst\n\n"
         \o "sources:\n- kind: local_external\n  path: /aosp/lib\n\n"
         \o "variables:\n  build-type: static\n  lib-name: L\n  src-files: a.c\n"
         \o "  extra-cflags: \"-Wl,-z -DX\"\n"

\* A prebuilt whose src is a,b.conf was written with the config value unquoted.
UnquotedConfigWritten ==
    /\ Len(written) = 1
    /\ written[1].content =
         "kind: import\n\nsources:\n- kind: local_external\n  path: /aosp/lib\n\n"
         \o "config:\n  source: a,b.conf\n  target: /etc\n"

\* A value of two lines was written as a block scalar.
BlockScalarWritten ==
    /\ Len(written) = 1
    /\ written[1].content =
         "kind: aosp_cc\n\ndepends:\n- base/aosp-sdk.bst\n\n"
         \o "sources:\n- kind: local_external\n  path: /aosp/lib\n\n"
         \o "variables:\n  build-type: static\n  lib-name: L\n  src-files: a.c\n"
         \o "  extra-cflags: |\n    -DA\n    -DB\n"

-----------------------------------------------------------------------------
(* parser.py: the Lexer. A position is the 0-based one of the code plus one. *)

\* raise ParseError(message, line, col)
ParseError(message, line, col) ==
    [raised |-> "ParseError", message |-> message, line |-> line, col |-> col]

\* The ValueError of int(), which has no line and no column.
ValueError(message) == [raised |-> "ValueError", message |-> message]

IsRaise(r) == "raised" \in DOMAIN r

\* str(e) of a ParseError, line 23
ParseErrorStr(e) ==
    "line " \o ToString(e.line) \o ", col " \o ToString(e.col) \o ": " \o e.message

Token(type, value, line, col) == [type |-> type, value |-> value, line |-> line, col |-> col]

KEYWORDS == {"true", "false", "select", "unset"}

\* The characters of a text.
CharsOf(text) == {SubSeq(text, i, i) : i \in 1..Len(text)}

\* str.isalpha, str.isdecimal, str.isdigit and str.isalnum are those of Unicode. The
\* model has the ASCII characters in full and, of the others, a letter and a digit
\* that is no decimal; the decimal digits of other scripts are left out.
AsciiLetters == CharsOf("abcdefghijklmnopqrstuvwxyzABCDEFGHIJKLMNOPQRSTUVWXYZ")

AsciiDigits == CharsOf("0123456789")

OtherLetters == {"é"}

OtherDigits == {"²"}

isalpha(c) == c \in AsciiLetters \cup OtherLetters

isdecimal(c) == c \in AsciiDigits

isdigit(c) == isdecimal(c) \/ c \in OtherDigits

isalnum(c) == isalpha(c) \/ isdigit(c)

\* repr of a str without quotes, backslashes or control characters
Repr(s) == "'" \o s \o "'"

\* Lexer.__init__
Lexer(text) == [pos |-> 1, line |-> 1, col |-> 1]

\* self.text[pos], and the None of _peek and _peek2 as the empty text
CharAt(text, pos) == IF pos >= 1 /\ pos <= Len(text) THEN SubSeq(text, pos, pos) ELSE ""

RECURSIVE advance(_, _, _)
advance(text, lx, n) ==
    IF n = 0 THEN lx
    ELSE IF lx.pos > Len(text) THEN advance(text, lx, n - 1)
    ELSE IF CharAt(text, lx.pos) = "\n"
    THEN advance(text, [pos |-> lx.pos + 1, line |-> lx.line + 1, col |-> 1], n - 1)
    ELSE advance(text, [pos |-> lx.pos + 1, line |-> lx.line, col |-> lx.col + 1], n - 1)

\* The loop of lines 101 and 102.
RECURSIVE SkipLineComment(_, _)
SkipLineComment(text, lx) ==
    IF lx.pos <= Len(text) /\ CharAt(text, lx.pos) # "\n"
    THEN SkipLineComment(text, advance(text, lx, 1))
    ELSE lx

\* The loop of lines 108 to 112.
RECURSIVE SkipBlockComment(_, _)
SkipBlockComment(text, lx) ==
    IF lx.pos > Len(text) THEN lx
    ELSE IF CharAt(text, lx.pos) = "*" /\ CharAt(text, lx.pos + 1) = "/"
    THEN advance(text, lx, 2)
    ELSE SkipBlockComment(text, advance(text, lx, 1))

RECURSIVE skip_whitespace_and_comments(_, _)
skip_whitespace_and_comments(text, lx) ==
    LET c == CharAt(text, lx.pos)
    IN  IF lx.pos > Len(text) THEN lx
        ELSE IF c \in {" ", "\t", "\r", "\n"}
        THEN skip_whitespace_and_comments(text, advance(text, lx, 1))
        ELSE IF c = "/" /\ CharAt(text, lx.pos + 1) = "/"
        THEN skip_whitespace_and_comments(text, SkipLineComment(text, lx))
        ELSE IF c = "/" /\ CharAt(text, lx.pos + 1) = "*"
        THEN skip_whitespace_and_comments(text, SkipBlockComment(text, advance(text, lx, 2)))
        ELSE lx

\* Lines 128 to 137: what an escape appends.
Escaped(esc) == IF esc = "n" THEN "\n" ELSE IF esc = "t" THEN "\t" ELSE esc

\* _read_string past the opening quote: the value and the Lexer after it, or the raise.
RECURSIVE read_string(_, _, _)
read_string(text, lx, chars) ==
    LET c == CharAt(text, lx.pos)
        after == advance(text, lx, 1)
    IN  IF lx.pos > Len(text) THEN ParseError("Unterminated string", lx.line, lx.col)
        ELSE IF c = "\\"
        THEN IF after.pos <= Len(text)
             THEN read_string(text, advance(text, after, 1),
                              chars \o Escaped(CharAt(text, after.pos)))
             ELSE read_string(text, after, chars)
        ELSE IF c = "\"" THEN [value |-> chars, lx |-> after]
        ELSE read_string(text, after, chars \o c)

\* _read_ident: the position past the identifier that starts at pos.
RECURSIVE read_ident(_, _)
read_ident(text, pos) ==
    IF pos <= Len(text) /\ (isalnum(CharAt(text, pos)) \/ CharAt(text, pos) = "_")
    THEN read_ident(text, pos + 1)
    ELSE pos

\* The loop of lines 161 and 162.
RECURSIVE DigitsEnd(_, _)
DigitsEnd(text, pos) ==
    IF pos <= Len(text) /\ isdigit(CharAt(text, pos)) THEN DigitsEnd(text, pos + 1) ELSE pos

DecimalValue(c) == CHOOSE v \in 0..9 : SubSeq("0123456789", v + 1, v + 1) = c

\* int(digits) of decimal digits, most significant first
RECURSIVE DecimalsValue(_)
DecimalsValue(digits) ==
    IF digits = "" THEN 0
    ELSE 10 * DecimalsValue(SubSeq(digits, 1, Len(digits) - 1))
         + DecimalValue(SubSeq(digits, Len(digits), Len(digits)))

\* The digits of a literal, which come after an optional '-'.
DigitsOf(literal) ==
    IF CharAt(literal, 1) = "-" THEN SubSeq(literal, 2, Len(literal)) ELSE literal

\* int(literal) raises a ValueError: there is no digit, or one that is no decimal.
InvalidLiteral(literal) ==
    DigitsOf(literal) = "" \/ \E c \in CharsOf(DigitsOf(literal)) : ~isdecimal(c)

\* int(literal) when it returns
int(literal) ==
    IF CharAt(literal, 1) = "-" THEN 0 - DecimalsValue(DigitsOf(literal))
    ELSE DecimalsValue(DigitsOf(literal))

\* _read_int: the value and the position past the literal that starts at pos, or the
\* raise of int.
read_int(text, pos) ==
    LET end == DigitsEnd(text, IF CharAt(text, pos) = "-" THEN pos + 1 ELSE pos)
        literal == SubSeq(text, pos, end - 1)
    IN  IF InvalidLiteral(literal)
        THEN ValueError("invalid literal for int() with base 10: " \o Repr(literal))
        ELSE [value |-> int(literal), end |-> end]

\* The tokens of one character, lines 186 to 209 and 216 to 218.
Punctuation ==
    {[type |-> "LBRACE", c |-> "{"], [type |-> "RBRACE", c |-> "}"],
     [type |-> "LBRACKET", c |-> "["], [type |-> "RBRACKET", c |-> "]"],
     [type |-> "LPAREN", c |-> "("], [type |-> "RPAREN", c |-> ")"],
     [type |-> "COLON", c |-> ":"], [type |-> "COMMA", c |-> ","],
     [type |-> "EQUALS", c |-> "="]}

\* next_token: the token and the Lexer after it, or the raise.
next_token(text, before) ==
    LET lx == skip_whitespace_and_comments(text, before)
        c == CharAt(text, lx.pos)
        string == read_string(text, advance(text, lx, 1), "")
        ident_end == read_ident(text, lx.pos)
        number == read_int(text, lx.pos)
        Read(type, value, n) ==
            [token |-> Token(type, value, lx.line, lx.col), lx |-> advance(text, lx, n)]
    IN  IF lx.pos > Len(text) THEN Read("EOF", "", 0)
        ELSE IF c = "\""
        THEN IF IsRaise(string) THEN string
             ELSE [token |-> Token("STRING", string.value, lx.line, lx.col), lx |-> string.lx]
        ELSE IF isalpha(c) \/ c = "_"
        THEN Read("IDENT", SubSeq(text, lx.pos, ident_end - 1), ident_end - lx.pos)
        ELSE IF isdigit(c) \/ (c = "-" /\ lx.pos + 1 <= Len(text)
                                       /\ isdigit(CharAt(text, lx.pos + 1)))
        THEN IF IsRaise(number) THEN number
             ELSE Read("INT", number.value, number.end - lx.pos)
        ELSE IF \E p \in Punctuation : p.c = c
        THEN Read((CHOOSE p \in Punctuation : p.c = c).type, c, 1)
        ELSE IF c = "+"
        THEN IF CharAt(text, lx.pos + 1) = "=" THEN Read("PLUSEQ", "+=", 2)
             ELSE Read("PLUS", "+", 1)
        ELSE ParseError("Unexpected character: " \o Repr(c), lx.line, lx.col)

\* The loop of tokenize: the tokens appended, and the raise that ended it if one did.
RECURSIVE TokenizeFrom(_, _, _)
TokenizeFrom(text, lx, tokens) ==
    LET next == next_token(text, lx)
    IN  IF IsRaise(next) THEN [tokens |-> tokens, raise |-> next]
        ELSE IF next.token.type = "EOF"
        THEN [tokens |-> Append(tokens, next.token), raise |-> None]
        ELSE TokenizeFrom(text, next.lx, Append(tokens, next.token))

\* Lexer(text).tokenize(): the list of tokens, or the raise and no list.
tokenize(text) ==
    LET done == TokenizeFrom(text, Lexer(text), <<>>)
    IN  IF done.raise # None THEN [tokens |-> <<>>, raise |-> done.raise] ELSE done

\* Lexer(text).tokenize(), call to return.
Tokenize(text) ==
    /\ lexed = None
    /\ source' = text
    /\ lexed' = tokenize(text)
    /\ parsed' = None
    /\ UNCHANGED <<target_arch, bp_file, output_prefix, result, written>>
    /\ UNCHANGED <<resolver_vars, collect_vars, eval_vars, heap_vars>>

\* The caller has read the tokens, or the File, or caught the raise.
TakeParsed ==
    /\ lexed # None
    /\ source' = None
    /\ lexed' = None
    /\ parsed' = None
    /\ UNCHANGED <<target_arch, bp_file, output_prefix, result, written>>
    /\ UNCHANGED <<resolver_vars, collect_vars, eval_vars, heap_vars>>

-----------------------------------------------------------------------------
(* Texts of a few characters: letters, digits and signs of every branch of   *)
(* next_token.                                                               *)

MaxChars == 3

LexChars == {"a", "_", "1", "-", " ", "\n", "\"", "/", "*", "+", "=", "{", "@", "é", "²"}

RECURSIVE Concat(_)
Concat(texts) == IF texts = <<>> THEN "" ELSE Head(texts) \o Concat(Tail(texts))

LexTexts == {Concat(cs) : cs \in SeqsUpTo(LexChars, MaxChars)}

NextLex ==
    \/ \E text \in LexTexts : Tokenize(text)
    \/ TakeParsed

SpecLex == Init /\ [][NextLex]_vars

-----------------------------------------------------------------------------
(* Properties of the tokens. *)

\* [A-Za-z_][A-Za-z0-9_]*
IdentifierText(s) ==
    /\ s # ""
    /\ CharAt(s, 1) \in AsciiLetters \cup {"_"}
    /\ CharsOf(s) \subseteq AsciiLetters \cup AsciiDigits \cup {"_"}

\* A text with no string and no comment: every character is looked at by next_token.
NoStringNoComment(text) == ~AnyCharIn(text, {"\"", "/"})

\* The character at i is none of: whitespace, an ASCII letter or underscore, an ASCII
\* digit, a '-' right before a digit, one of { } [ ] ( ) : , = +.
Foreign(text, i) ==
    LET c == CharAt(text, i)
    IN  /\ c \notin {" ", "\t", "\r", "\n"} \cup AsciiLetters \cup {"_"} \cup AsciiDigits
        /\ c \notin {"{", "}", "[", "]", "(", ")", ":", ",", "=", "+"}
        /\ ~(c = "-" /\ CharAt(text, i + 1) \in AsciiDigits)

HasForeign(text) == \E i \in 1..Len(text) : Foreign(text, i)

FirstForeign(text) == Min({i \in 1..Len(text) : Foreign(text, i)})

\* The 1-based line and column of the character at i.
LineOf(text, i) == 1 + Cardinality({j \in 1..(i - 1) : CharAt(text, j) = "\n"})

ColOf(text, i) ==
    LET breaks == {j \in 1..(i - 1) : CharAt(text, j) = "\n"}
    IN  IF breaks = {} THEN i ELSE i - (CHOOSE j \in breaks : \A k \in breaks : k <= j)

\* tokenize raised a lex error at the character at i.
LexErrorAt(text, i) ==
    /\ lexed.raise # None
    /\ lexed.raise.raised = "ParseError"
    /\ lexed.raise.message = "Unexpected character: " \o Repr(CharAt(text, i))
    /\ lexed.raise.line = LineOf(text, i)
    /\ lexed.raise.col = ColOf(text, i)

IdentifiersMatch ==
    \A i \in DOMAIN lexed.tokens :
        lexed.tokens[i].type = "IDENT" => IdentifierText(lexed.tokens[i].value)

ForeignRejected ==
    NoStringNoComment(source) /\ HasForeign(source)
        => LexErrorAt(source, FirstForeign(source))

\* C24: an identifier token is emitted only for text matching
\* [A-Za-z_][A-Za-z0-9_]*, and a character that is no whitespace, no part of a
\* comment or string, no ASCII letter, underscore or digit, no '-' right before a
\* digit and none of { } [ ] ( ) : , = + is rejected with a lex error that carries
\* its 1-based line and column.
C24_AsciiIdentifiersOthersRejected ==
    lexed # None /\ parsed = None => IdentifiersMatch /\ ForeignRejected

\* The same for the texts of ASCII characters.
AsciiLexedAsWorded ==
    lexed # None /\ parsed = None /\ CharsOf(source) \cap {"é", "²"} = {}
        => IdentifiersMatch /\ ForeignRejected

\* An identifier token with a letter outside ASCII.
ForeignIdentifierLexed ==
    /\ lexed # None /\ parsed = None
    /\ source = "aé"
    /\ lexed.raise = None
    /\ lexed.tokens[1] = Token("IDENT", "aé", 1, 1)

\* A digit outside ASCII ends tokenize with the ValueError of int.
ForeignDigitRaised ==
    /\ lexed # None /\ parsed = None
    /\ source = "1²"
    /\ lexed.raise = ValueError("invalid literal for int() with base 10: '1²'")

\* A character of the second line rejected with its line and column.
SecondLineRejected ==
    /\ lexed # None /\ parsed = None
    /\ source = "a\n@"
    /\ lexed.raise = ParseError("Unexpected character: '@'", 2, 1)

-----------------------------------------------------------------------------
(* parser.py: the Parser. A parse function takes the tokens and the position *)
(* it starts at (the code's plus one) and gives the node and the position    *)
(* after it, or the raise.                                                   *)

\* ast.File
File(name, defs) == [name |-> name, defs |-> defs]

Parsed(value, pos) == [value |-> value, pos |-> pos]

peek(tokens, pos) == IF pos <= Len(tokens) THEN tokens[pos] ELSE Token("EOF", "", 0, 0)

at(tokens, pos, type) == peek(tokens, pos).type = type

\* _match: the position after an optional token
match(tokens, pos, type) == IF at(tokens, pos, type) THEN pos + 1 ELSE pos

\* {tok.value!r}
ValueRepr(tok) == IF tok.type = "INT" THEN ToString(tok.value) ELSE Repr(tok.value)

expect(tokens, pos, type) ==
    LET tok == peek(tokens, pos)
    IN  IF tok.type # type
        THEN ParseError("Expected " \o type \o ", got " \o tok.type
                        \o " (" \o ValueRepr(tok) \o ")", tok.line, tok.col)
        ELSE Parsed(tok, pos + 1)

\* The methods of Parser call one another through Call, which is defined after them.
RECURSIVE Call(_, _, _, _)

parse_primary(tokens, pos) ==
    LET tok == peek(tokens, pos)
        props == Call("parse_map_body", tokens, pos, <<>>)
    IN  IF tok.type = "STRING" THEN Parsed(StringExpr(tok.value), pos + 1)
        ELSE IF tok.type = "INT" THEN Parsed(IntExpr(tok.value), pos + 1)
        ELSE IF tok.type = "LBRACKET" THEN Call("parse_list", tokens, pos, <<>>)
        ELSE IF tok.type = "LBRACE"
        THEN IF IsRaise(props) THEN props ELSE Parsed(MapExpr(props.value), props.pos)
        ELSE IF tok.type = "IDENT"
        THEN IF tok.value = "true" THEN Parsed(BoolExpr(TRUE), pos + 1)
             ELSE IF tok.value = "false" THEN Parsed(BoolExpr(FALSE), pos + 1)
             ELSE IF tok.value = "unset" THEN Parsed(StringExpr("__unset__"), pos + 1)
             ELSE IF tok.value = "select" THEN Call("parse_select", tokens, pos, <<>>)
             ELSE Parsed(VariableRef(tok.value), pos + 1)
        ELSE ParseError("Unexpected token in expression: " \o tok.type
                        \o " (" \o ValueRepr(tok) \o ")", tok.line, tok.col)

\* The loop of lines 340 to 343.
RECURSIVE ExpressionLoop(_, _, _)
ExpressionLoop(tokens, pos, left) ==
    LET right == Call("parse_primary", tokens, pos + 1, <<>>)
    IN  IF ~at(tokens, pos, "PLUS") THEN Parsed(left, pos)
        ELSE IF IsRaise(right) THEN right
        ELSE ExpressionLoop(tokens, right.pos, OperatorExpr(left, "+", right.value))

parse_expression(tokens, pos) ==
    LET left == Call("parse_primary", tokens, pos, <<>>)
    IN  IF IsRaise(left) THEN left ELSE Call("ExpressionLoop", tokens, left.pos, left.value)

parse_property(tokens, pos) ==
    LET name_tok == expect(tokens, pos, "IDENT")
        colon == expect(tokens, name_tok.pos, "COLON")
        value == Call("parse_expression", tokens, colon.pos, <<>>)
    IN  IF IsRaise(name_tok) THEN name_tok
        ELSE IF IsRaise(colon) THEN colon
        ELSE IF IsRaise(value) THEN value
        ELSE Parsed(Property(name_tok.value.value, value.value), value.pos)

\* The loop of lines 323 to 326.
RECURSIVE MapBodyLoop(_, _, _)
MapBodyLoop(tokens, pos, properties) ==
    LET prop == Call("parse_property", tokens, pos, <<>>)
    IN  IF at(tokens, pos, "RBRACE") \/ at(tokens, pos, "EOF") THEN Parsed(properties, pos)
        ELSE IF IsRaise(prop) THEN prop
        ELSE MapBodyLoop(tokens, match(tokens, prop.pos, "COMMA"),
                         Append(properties, prop.value))

parse_map_body(tokens, pos) ==
    LET open == expect(tokens, pos, "LBRACE")
        properties == Call("MapBodyLoop", tokens, open.pos, <<>>)
        close == expect(tokens, properties.pos, "RBRACE")
    IN  IF IsRaise(open) THEN open
        ELSE IF IsRaise(properties) THEN properties
        ELSE IF IsRaise(close) THEN close
        ELSE Parsed(properties.value, close.pos)

\* The loop of lines 393 to 395.
RECURSIVE ListLoop(_, _, _)
ListLoop(tokens, pos, values) ==
    LET value == Call("parse_expression", tokens, pos, <<>>)
    IN  IF at(tokens, pos, "RBRACKET") \/ at(tokens, pos, "EOF") THEN Parsed(values, pos)
        ELSE IF IsRaise(value) THEN value
        ELSE ListLoop(tokens, match(tokens, value.pos, "COMMA"), Append(values, value.value))

parse_list(tokens, pos) ==
    LET open == expect(tokens, pos, "LBRACKET")
        values == Call("ListLoop", tokens, open.pos, <<>>)
        close == expect(tokens, values.pos, "RBRACKET")
    IN  IF IsRaise(open) THEN open
        ELSE IF IsRaise(values) THEN values
        ELSE IF IsRaise(close) THEN close
        ELSE Parsed(ListExpr(values.value), close.pos)

\* The loop of lines 408 to 411: the condition's arguments.
RECURSIVE FuncArgsLoop(_, _, _)
FuncArgsLoop(tokens, pos, func_args) ==
    LET arg_tok == expect(tokens, pos, "STRING")
    IN  IF at(tokens, pos, "RPAREN") \/ at(tokens, pos, "EOF") THEN Parsed(func_args, pos)
        ELSE IF IsRaise(arg_tok) THEN arg_tok
        ELSE FuncArgsLoop(tokens, match(tokens, arg_tok.pos, "COMMA"),
                          Append(func_args, arg_tok.value.value))

\* The loop of lines 431 to 434: the patterns of a tuple, past its '('.
RECURSIVE TuplePatternsLoop(_, _, _)
TuplePatternsLoop(tokens, pos, patterns) ==
    LET p == expect(tokens, pos, "STRING")
    IN  IF at(tokens, pos, "RPAREN") THEN Parsed(patterns, pos)
        ELSE IF IsRaise(p) THEN p
        ELSE TuplePatternsLoop(tokens, match(tokens, p.pos, "COMMA"),
                               Append(patterns, StringExpr(p.value.value)))

\* Lines 421 to 440: the patterns of one case.
CasePatterns(tokens, pos) ==
    LET tuple == TuplePatternsLoop(tokens, pos + 1, <<>>)
        close == expect(tokens, tuple.pos, "RPAREN")
    IN  IF at(tokens, pos, "STRING") \/ at(tokens, pos, "IDENT")
        THEN Parsed(<<StringExpr(peek(tokens, pos).value)>>, pos + 1)
        ELSE IF at(tokens, pos, "LPAREN")
        THEN IF IsRaise(tuple) THEN tuple
             ELSE IF IsRaise(close) THEN close
             ELSE Parsed(tuple.value, close.pos)
        ELSE ParseError("Expected pattern in select case, got " \o peek(tokens, pos).type,
                        peek(tokens, pos).line, peek(tokens, pos).col)

\* The loop of lines 419 to 445.
RECURSIVE CasesLoop(_, _, _)
CasesLoop(tokens, pos, cases) ==
    LET patterns == CasePatterns(tokens, pos)
        colon == expect(tokens, patterns.pos, "COLON")
        value == Call("parse_expression", tokens, colon.pos, <<>>)
    IN  IF at(tokens, pos, "RBRACE") \/ at(tokens, pos, "EOF") THEN Parsed(cases, pos)
        ELSE IF IsRaise(patterns) THEN patterns
        ELSE IF IsRaise(colon) THEN colon
        ELSE IF IsRaise(value) THEN value
        ELSE CasesLoop(tokens, match(tokens, value.pos, "COMMA"),
                       Append(cases, [patterns |-> patterns.value, value |-> value.value]))

parse_select(tokens, pos) ==
    LET select == expect(tokens, pos, "IDENT")
        open == expect(tokens, select.pos, "LPAREN")
        func_name_tok == expect(tokens, open.pos, "IDENT")
        args_open == expect(tokens, func_name_tok.pos, "LPAREN")
        func_args == FuncArgsLoop(tokens, args_open.pos, <<>>)
        args_close == expect(tokens, func_args.pos, "RPAREN")
        comma == expect(tokens, args_close.pos, "COMMA")
        cases_open == expect(tokens, comma.pos, "LBRACE")
        cases == Call("CasesLoop", tokens, cases_open.pos, <<>>)
        cases_close == expect(tokens, cases.pos, "RBRACE")
        close == expect(tokens, cases_close.pos, "RPAREN")
    IN  IF IsRaise(select) THEN select
        ELSE IF IsRaise(open) THEN open
        ELSE IF IsRaise(func_name_tok) THEN func_name_tok
        ELSE IF IsRaise(args_open) THEN args_open
        ELSE IF IsRaise(func_args) THEN func_args
        ELSE IF IsRaise(args_close) THEN args_close
        ELSE IF IsRaise(comma) THEN comma
        ELSE IF IsRaise(cases_open) THEN cases_open
        ELSE IF IsRaise(cases) THEN cases
        ELSE IF IsRaise(cases_close) THEN cases_close
        ELSE IF IsRaise(close) THEN close
        ELSE Parsed(SelectExpr(func_name_tok.value.value, func_args.value, cases.value),
                    close.pos)

parse_assignment(tokens, pos) ==
    LET name_tok == expect(tokens, pos, "IDENT")
        equals == expect(tokens, name_tok.pos, "EQUALS")
        value == Call("parse_expression", tokens, name_tok.pos + 1, <<>>)
    IN  IF IsRaise(name_tok) THEN name_tok
        ELSE IF ~at(tokens, name_tok.pos, "PLUSEQ") /\ IsRaise(equals) THEN equals
        ELSE IF IsRaise(value) THEN value
        ELSE Parsed(Assignment(name_tok.value.value, value.value,
                               IF at(tokens, name_tok.pos, "PLUSEQ") THEN "+=" ELSE "="),
                    value.pos)

parse_module(tokens, pos) ==
    LET type_tok == expect(tokens, pos, "IDENT")
        properties == Call("parse_map_body", tokens, type_tok.pos, <<>>)
    IN  IF IsRaise(type_tok) THEN type_tok
        ELSE IF IsRaise(properties) THEN properties
        ELSE Parsed(Module(type_tok.value.value, properties.value), properties.pos)

parse_definition(tokens, pos) ==
    LET tok == peek(tokens, pos)
        next_tok == peek(tokens, pos + 1)
    IN  IF tok.type # "IDENT"
        THEN ParseError("Expected identifier at top level, got " \o tok.type
                        \o " (" \o ValueRepr(tok) \o ")", tok.line, tok.col)
        ELSE IF next_tok.type \in {"EQUALS", "PLUSEQ"} THEN Call("parse_assignment", tokens, pos, <<>>)
        ELSE IF next_tok.type = "LBRACE" THEN Call("parse_module", tokens, pos, <<>>)
        ELSE ParseError("Expected '=', '+=', or '{' after identifier '" \o tok.value
                        \o "', got " \o next_tok.type, next_tok.line, next_tok.col)

\* The loop of parse, lines 272 to 275.
RECURSIVE DefinitionsLoop(_, _, _)
DefinitionsLoop(tokens, pos, defs) ==
    LET defn == Call("parse_definition", tokens, pos, <<>>)
    IN  IF at(tokens, pos, "EOF") THEN Parsed(defs, pos)
        ELSE IF IsRaise(defn) THEN defn
        ELSE DefinitionsLoop(tokens, defn.pos, Append(defs, defn.value))

\* self.<method>(...): the call of a method of Parser, or of the loop of one, by its name.
Call(method, tokens, pos, items) ==
    CASE method = "parse_primary" -> parse_primary(tokens, pos)
      [] method = "parse_expression" -> parse_expression(tokens, pos)
      [] method = "ExpressionLoop" -> ExpressionLoop(tokens, pos, items)
      [] method = "parse_property" -> parse_property(tokens, pos)
      [] method = "parse_map_body" -> parse_map_body(tokens, pos)
      [] method = "MapBodyLoop" -> MapBodyLoop(tokens, pos, items)
      [] method = "parse_list" -> parse_list(tokens, pos)
      [] method = "ListLoop" -> ListLoop(tokens, pos, items)
      [] method = "parse_select" -> parse_select(tokens, pos)
      [] method = "CasesLoop" -> CasesLoop(tokens, pos, items)
      [] method = "parse_assignment" -> parse_assignment(tokens, pos)
      [] method = "parse_module" -> parse_module(tokens, pos)
      [] method = "parse_definition" -> parse_definition(tokens, pos)
      [] method = "DefinitionsLoop" -> DefinitionsLoop(tokens, pos, items)

\* Parser.parse over the tokens of __init__: the File, or the raise.
parse(tokens, filename) ==
    LET defs == Call("DefinitionsLoop", tokens, 1, <<>>)
    IN  IF IsRaise(defs) THEN defs ELSE File(filename, defs.value)

\* parse_string(text): Parser(text) tokenizes the whole text, then parse() is called.
Parser(lexer) == IF lexer.raise # None THEN lexer.raise ELSE parse(lexer.tokens, "<string>")

parse_string(text) == Parser(tokenize(text))

\* parse_string(text), call to return.
ParseString(text) ==
    /\ lexed = None
    /\ source' = text
    /\ lexed' = tokenize(text)
    /\ parsed' = parse_string(text)
    /\ UNCHANGED <<target_arch, bp_file, output_prefix, result, written>>
    /\ UNCHANGED <<resolver_vars, collect_vars, eval_vars, heap_vars>>

-----------------------------------------------------------------------------
(* Texts of a few lexemes, one space after each, the last of which may be on *)
(* a second line; well-formed texts and what is left of them when cut off;   *)
(* and assignments of a select with up to MaxCases cases.                    *)

MaxLexemes == 3

Lexemes == {"x", "=", "+=", "{", "}", "[", "]", ":", "1", "\"s\"", "+", "@"}

RECURSIVE Spaced(_)
Spaced(lexemes) == IF lexemes = <<>> THEN "" ELSE Head(lexemes) \o " " \o Spaced(Tail(lexemes))

LexemeTexts ==
    {Spaced(ls) : ls \in SeqsUpTo(Lexemes, MaxLexemes)}
    \cup {Spaced(ls) \o "\n" \o l : ls \in SeqsUpTo(Lexemes, MaxLexemes - 1), l \in Lexemes}

WellFormedTexts ==
    {"x = [\"a\", y] + z\nx += {k: true, l: -12}",
     "// c\nm {\n  name: \"n\",\n  srcs: [\"a.c\"] + x, /* d */\n}\n",
     "x = select(arch(\"a\"), { \"arm\": [1], default: unset, (\"b\", \"c\"): false })"}

CutTexts == UNION {{SubSeq(t, 1, n) : n \in 0..Len(t)} : t \in WellFormedTexts}

MaxCases == 2

CasePatternTexts ==
    {"\"a\"", "default", "()", "(\"a\")", "(\"a\", \"b\")", "(\"a\",)", "(a)", "1"}

CaseTexts == {p \o ": " \o v \o ", " : p \in CasePatternTexts, v \in {"1", "[\"v\"]"}}

SelectTexts ==
    {"x = select(f(" \o args \o "), {" \o Concat(cs) \o "})" :
        args \in {"", "\"q\"", "\"q\", \"r\""}, cs \in SeqsUpTo(CaseTexts, MaxCases)}
    \cup {"m { p: [select(f(), {" \o c \o "})] + y }" : c \in CaseTexts}

NextParse ==
    \/ \E text \in LexemeTexts \cup CutTexts \cup SelectTexts : ParseString(text)
    \/ TakeParsed

SpecParse == Init /\ [][NextParse]_vars

-----------------------------------------------------------------------------
(* Properties of the File or the ParseError of a text. *)

\* The position of a is before that of b.
LocatedBefore(a, b) == a.line < b.line \/ (a.line = b.line /\ a.col < b.col)

\* What a Parser that takes its tokens one by one meets: the tokens before the lex
\* error, and then a token of no type where tokenize raises.
TokensMet(text) ==
    LET done == TokenizeFrom(text, Lexer(text), <<>>)
    IN  Append(done.tokens, Token("ERROR", "", done.raise.line, done.raise.col))

\* tokenize raises for the text, and the tokens before that are no start of a file:
\* parse raises at one of them.
ParseErrorBeforeLexError(text) ==
    /\ lexed.raise # None
    /\ lexed.raise.raised = "ParseError"
    /\ IsRaise(parse(TokensMet(text), "<string>"))
    /\ LocatedBefore(parse(TokensMet(text), "<string>"), lexed.raise)

\* C22: the one ParseError raised for an invalid text is the first failure in it: no
\* lex or parse error is located at an earlier line and column than the one reported.
C22_FirstFailureReported ==
    parsed # None /\ IsRaise(parsed) => ~ParseErrorBeforeLexError(source)

\* The same for the texts tokenize returns for: parse stops at the first token that
\* fits no rule.
ParseErrorIsFirst ==
    parsed # None /\ IsRaise(parsed) /\ lexed.raise = None
        => /\ parsed.raised = "ParseError"
           /\ \E i \in DOMAIN lexed.tokens :
                 /\ lexed.tokens[i].line = parsed.line /\ lexed.tokens[i].col = parsed.col
                 /\ ~IsRaise(parse(SubSeq(lexed.tokens, 1, i - 1)
                                   \o <<Token("EOF", "", 0, 0)>>, "<string>"))
                    \/ parse(SubSeq(lexed.tokens, 1, i - 1)
                             \o <<Token("EOF", "", 0, 0)>>, "<string>").line = 0

\* A lex error of the second line reported for a text whose first token fits no rule.
LaterLexErrorReported ==
    /\ parsed # None
    /\ source = "} \n@"
    /\ parsed = ParseError("Unexpected character: '@'", 2, 1)
    /\ parse(TokensMet(source), "<string>")
         = ParseError("Expected identifier at top level, got RBRACE ('}')", 1, 1)

\* The Select nodes of an expression, at any depth.
RECURSIVE SelectsIn(_)
SelectsIn(e) ==
    CASE e.t = "List" -> UNION {SelectsIn(e.values[i]) : i \in DOMAIN e.values}
      [] e.t = "Map" -> UNION {SelectsIn(e.properties[i].value) : i \in DOMAIN e.properties}
      [] e.t = "Operator" -> SelectsIn(e.left) \cup SelectsIn(e.right)
      [] e.t = "Select" ->
            {e} \cup UNION {SelectsIn(e.cases[i].value) : i \in DOMAIN e.cases}
      [] OTHER -> {}

\* The Select nodes of the File parsed.
ParsedSelects ==
    UNION {IF IsAssignment(parsed.defs[i]) THEN SelectsIn(parsed.defs[i].value)
           ELSE SelectsIn(MapExpr(parsed.defs[i].properties)) : i \in DOMAIN parsed.defs}

OnlyStrings(patterns) == \A j \in DOMAIN patterns : patterns[j].t = "String"

\* C23: every case of every Select node the parser produces has a non-empty
\* sequence of patterns, all of them String expressions, whether the pattern was
\* written as a string, an identifier or a parenthesized tuple.
C23_PatternsNonEmptyStrings ==
    parsed # None /\ ~IsRaise(parsed)
        => \A s \in ParsedSelects : \A i \in DOMAIN s.cases :
              s.cases[i].patterns # <<>> /\ OnlyStrings(s.cases[i].patterns)

\* The patterns of every case are String expressions.
PatternsOnlyStrings ==
    parsed # None /\ ~IsRaise(parsed)
        => \A s \in ParsedSelects : \A i \in DOMAIN s.cases : OnlyStrings(s.cases[i].patterns)

\* A case written with the tuple () parsed to a case of no pattern.
EmptyTupleParsed ==
    /\ parsed # None
    /\ source = "x = select(f(), {(): 1, })"
    /\ parsed = File("<string>",
                     <<Assignment("x", SelectExpr("f", <<>>, <<[patterns |-> <<>>,
                                                                value |-> IntExpr(1)]>>),
                                  "=")>>)

\* A string, an identifier and a tuple of two parsed to one, one and two Strings.
PatternsParsed ==
    /\ parsed # None
    /\ source = "x = select(f(\"q\"), {default: 1, (\"a\", \"b\"): 1, })"
    /\ parsed.defs[1].value.cases
         = <<[patterns |-> <<StringExpr("default")>>, value |-> IntExpr(1)],
             [patterns |-> <<StringExpr("a"), StringExpr("b")>>, value |-> IntExpr(1)]>>

-----------------------------------------------------------------------------
(* Properties of the collection: how often a cc_defaults module is merged. *)

\* The values of all the List properties called "cflags" of m, in order.
RECURSIVE FlagsIn(_)
FlagsIn(ps) ==
    IF ps = <<>> THEN <<>>
    ELSE (IF Head(ps).name = "cflags" /\ Head(ps).value.t = "List"
          THEN Head(ps).value.values ELSE <<>>) \o FlagsIn(Tail(ps))

\* How many of the values are the first flag of the cc_defaults named n.
FlagCount(n, values) ==
    Cardinality({i \in DOMAIN values : values[i] = FlagsOf(n).values[1]})

\* How many times resolve merged the registered module named n: its flags in the
\* returned module that are not the module's own.
TimesMerged(n) ==
    FlagCount(n, FlagsIn(resolved.properties)) - FlagCount(n, FlagsIn(module.properties))

\* The names the module given to resolve lists, and those of them that are registered.
ListedNames ==
    IF ModuleGet(module, "defaults") = None THEN <<>>
    ELSE extract_string_list(ModuleGet(module, "defaults"))

\* The module with the names of no registered cc_defaults taken off its list.
WithoutAbsent(m) ==
    Module(m.type,
           [i \in DOMAIN m.properties |->
              IF m.properties[i].name = "defaults" /\ m.properties[i].value.t = "List"
              THEN Property("defaults",
                            ListExpr(SelectSeq(m.properties[i].value.values,
                                               LAMBDA e : e.t # "String"
                                                          \/ Registered(e.value))))
              ELSE m.properties[i]])

\* C25: during resolve each registered cc_defaults module contributes its properties
\* at most once, also when it is listed twice or shared by two defaults; a name that
\* is not in the registry contributes nothing and raises no error: a module is
\* returned, the one returned without that name in the list when a name is left.
C25_EachDefaultMergedOnce ==
    Returned =>
        /\ \A n \in Names : Registered(n) => TimesMerged(n) \in {0, 1}
        /\ \A n \in Names : ~Registered(n) => TimesMerged(n) = 0
        /\ "type" \in DOMAIN resolved
        /\ ~ReturnsUnchanged(WithoutAbsent(module))
              => OwnProperties(resolved)
                   = OwnProperties(resolve(defaults_registry, WithoutAbsent(module)))

\* A consumer of A and B, which both name C, resolved with C's flags once and first.
C25_Witness ==
    /\ Returned
    /\ module = Consumer(<<"A", "B">>)
    /\ Registered("A") /\ Registered("B") /\ Registered("C")
    /\ NestedNames(defaults_registry["A"]) = <<"C">>
    /\ NestedNames(defaults_registry["B"]) = <<"C">>
    /\ ModuleGet(resolved, "cflags")
         = ListExpr(FlagsOf("C").values \o FlagsOf("A").values \o FlagsOf("B").values
                    \o FlagsOf("M").values)

\* A consumer that lists A twice and then a name that is not registered.
ListedTwiceAndAbsent ==
    /\ Returned
    /\ module = Consumer(<<"A", "A">>)
    /\ Registered("A") /\ ~Registered("B")
    /\ NestedNames(defaults_registry["A"]) = <<"B">>
    /\ ModuleGet(resolved, "cflags") = ListExpr(FlagsOf("A").values \o FlagsOf("M").values)

-----------------------------------------------------------------------------
(* Properties of the ConversionResult as a whole. *)

\* The four lists of a ConversionResult.
ResultLists == {"elements", "skipped", "unsupported", "errors"}

\* The modules of ms that lists puts in list, in the order of ms.
RECURSIVE PutIn(_, _, _)
PutIn(ms, lists, list) ==
    IF ms = <<>> THEN <<>>
    ELSE (IF Head(lists) = list THEN <<Head(ms)>> ELSE <<>>)
         \o PutIn(Tail(ms), Tail(lists), list)

\* The modules of ms as evaluated in the scope of the call.
EvaluatedIn(ms) == [i \in DOMAIN ms |-> evaluate_module(variables, ms[i])]

\* The filename of the element of the evaluated module m.
ElementFilename(m) ==
    IF output_prefix # "" THEN PathJoin(output_prefix, ModuleName(m) \o ".bst")
    ELSE ModuleName(m) \o ".bst"

\* The result has, for the modules ms of the file, the entry of each module in the one
\* list that lists gives it, and the entries of each list in the order of ms.
OneEntryEach(ms, lists) ==
    LET failing == PutIn(ms, lists, "errors")
        emitted == EvaluatedIn(PutIn(ms, lists, "elements"))
    IN  /\ \A i \in DOMAIN ms : lists[i] = "errors" <=> Fails(variables, ms[i])
        /\ result.errors =
              [i \in DOMAIN failing |->
                  EvaluationError(failing[i], evaluate_module(variables, failing[i]))]
        /\ result.skipped = TypeAndNames(EvaluatedIn(PutIn(ms, lists, "skipped")))
        /\ result.unsupported = TypeAndNames(EvaluatedIn(PutIn(ms, lists, "unsupported")))
        /\ [i \in DOMAIN result.elements |-> result.elements[i].filename]
              = [i \in DOMAIN emitted |-> ElementFilename(emitted[i])]

\* C27: for a file that parses, every module yields exactly one entry in exactly one
\* of elements, skipped, unsupported and errors, so that the four lengths add up to
\* the number of modules, and the elements follow the source order of their modules.
C27_OneEntryPerModule ==
    Converted /\ bp_file.error = ""
        => LET ms == FileModules(bp_file.defs)
           IN  /\ Len(result.elements) + Len(result.skipped) + Len(result.unsupported)
                     + Len(result.errors) = Len(ms)
               /\ \E lists \in [DOMAIN ms -> ResultLists] : OneEntryEach(ms, lists)

\* M raised, J has no handler and L is converted: one entry each in three lists.
C27_Witness ==
    /\ Converted
    /\ bp_file.defs = <<LibraryM, JavaLibraryJ, LibraryL>>
    /\ result.errors = <<"Evaluation error for cc_library_static 'M': Undefined variable: x">>
    /\ result.unsupported = <<"java_library 'J'">>
    /\ result.skipped = <<>>
    /\ Len(result.elements) = 1
    /\ result.elements[1].filename = "L.bst"

\* Two elements in the order of their modules, which is not that of their names.
ElementsInSourceOrder ==
    /\ Converted
    /\ bp_file.defs = <<Assignment("x", OneString("x"), "=") , LibraryM, LibraryL>>
    /\ Len(result.elements) = 2
    /\ result.elements[1].filename = "M.bst"
    /\ result.elements[2].filename = "L.bst"

-----------------------------------------------------------------------------
(* How an evaluate call ends. *)

\* C28: evaluate ends for every expression under every scope add_file_variables
\* builds, by returning an expression or by raising the EvalError of an undefined
\* variable, also when a variable's bound expression refers to the variable itself
\* or to one that refers back to it.
C28_ReturnsOrUndefinedVariable ==
    input # None => ~Raised(evaluated) \/ evaluated.t = "EvalError"

\* n is bound to an expression that refers to n, directly or through the other
\* variable.
RECURSIVE RefersTo(_, _, _)
RefersTo(e, n, through) ==
    CASE e.t = "VariableRef" ->
            \/ e.name = n
            \/ /\ e.name \notin through
               /\ IsBound(variables, e.name)
               /\ RefersTo(variables[e.name], n, through \cup {e.name})
      [] e.t = "Operator" -> RefersTo(e.left, n, through) \/ RefersTo(e.right, n, through)
      [] e.t = "List" -> \E i \in DOMAIN e.values : RefersTo(e.values[i], n, through)
      [] e.t = "Map" ->
            \E i \in DOMAIN e.properties : RefersTo(e.properties[i].value, n, through)
      [] OTHER -> FALSE

SelfReferring(n) == IsBound(variables, n) /\ RefersTo(variables[n], n, {n})

\* Under a scope with no variable that refers to itself, evaluate ends as worded.
AcyclicReturnsOrUndefinedVariable ==
    (input # None /\ \A n \in Identifiers : ~SelfReferring(n))
        => ~Raised(evaluated) \/ evaluated.t = "EvalError"

\* x is bound to x + ["x1"], and evaluating a reference to x ended in the
\* RecursionError of the interpreter.
SelfReferenceRaised ==
    /\ input = VariableRef("x")
    /\ variables["x"] = OperatorExpr(VariableRef("x"), "+", OneString("x"))
    /\ evaluated = RecursionError

\* x is bound to y and y to x.
MutualReferenceRaised ==
    /\ input = VariableRef("x")
    /\ variables["x"] = VariableRef("y")
    /\ variables["y"] = VariableRef("x")
    /\ evaluated = RecursionError

-----------------------------------------------------------------------------
(* Files in which a variable is referred to by a module and by another       *)
(* variable's value, before and after it is assigned.                        *)

LibraryY ==
    Module("cc_library_static", <<Property("name", StringExpr("Y")),
                                  Property("srcs", VariableRef("y"))>>)

ReferringDefs ==
    {Assignment("x", OneString("x"), "="), Assignment("x", TwoString("x"), "+="),
     Assignment("y", VariableRef("x"), "="), Assignment("y", TwoString("y"), "+="),
     LibraryM, LibraryY}

ReferringFiles == {BpFile("/aosp/lib", defs, "") : defs \in SeqsUpTo(ReferringDefs, MaxDefs)}

NextReferring ==
    \/ NewConverter("x86_64")
    \/ \E file \in ReferringFiles : ConvertFile(file, "")
    \/ TakeResult

SpecReferring == Init /\ [][NextReferring]_vars

-----------------------------------------------------------------------------
(* Properties of the references. *)

\* What the Converter of this step returns for the definitions defs in place of the
\* file's.
ResultOf(defs) ==
    convert_file(variables, defaults_registry, target_arch,
                 BpFile(bp_file'.dir, defs, ""), output_prefix')

\* The library whose srcs is a reference to n, if it is in the file of this step and
\* n evaluates to a List of Strings in the scope the call leaves, has an element whose
\* src-files are those Strings.
ReferenceResolvedLast(m, n) ==
    LET value == evaluate(variables', VariableRef(n), {})
    IN  ((\E i \in DOMAIN bp_file'.defs : bp_file'.defs[i] = m) /\ StringList(value))
            => \E i \in DOMAIN result'.elements :
                  /\ result'.elements[i].filename = ModuleName(m) \o ".bst"
                  /\ HasItem(result'.elements[i].content.variables, "src-files",
                             Join(ListStrings(value)))

\* C29: the assignments of a file are all registered before a module is evaluated,
\* and a bound expression is evaluated when it is referred to: a reference in a
\* module's property or in another variable's value resolves to the variable's last
\* binding in the file, whether the assignments stand before or after it.
C29_ReferencesResolveToLastBinding ==
    [][ConvertParsedStep =>
          /\ variables' = add_file_variables(variables, FileAssignments(bp_file'.defs))
          /\ result' = ResultOf(FileAssignments(bp_file'.defs)
                                \o FileModules(bp_file'.defs)).result
          /\ result' = ResultOf(FileModules(bp_file'.defs)
                                \o FileAssignments(bp_file'.defs)).result
          /\ ReferenceResolvedLast(LibraryM, "x")
          /\ ReferenceResolvedLast(LibraryY, "y")]_vars

\* Y refers to y, bound to x before x is assigned, and x is added to after Y: the
\* element has x's last binding.
C29_Witness ==
    /\ Converted
    /\ bp_file.defs = <<Assignment("y", VariableRef("x"), "="), LibraryY,
                        Assignment("x", OneString("x"), "=")>>
    /\ variables["x"] = OneString("x")
    /\ result.errors = <<>>
    /\ Len(result.elements) = 1
    /\ result.elements[1].filename = "Y.bst"
    /\ HasItem(result.elements[1].content.variables, "src-files", "x1")

\* M stands between x = ["x1"] and x += ["x2"]: its element has both.
ReferenceBeforeAddition ==
    /\ Converted
    /\ bp_file.defs = <<Assignment("x", OneString("x"), "="), LibraryM,
                        Assignment("x", TwoString("x"), "+=")>>
    /\ variables["x"] = OperatorExpr(OneString("x"), "+", TwoString("x"))
    /\ Len(result.elements) = 1
    /\ HasItem(result.elements[1].content.variables, "src-files", "x1 x2")

-----------------------------------------------------------------------------
(* Files in which two cc_defaults share a name, a cc_defaults fails unless x *)
(* is bound, and a consumer stands before, between and after them.           *)

CcDefaultsD1 ==
    Module("cc_defaults", <<Property("name", StringExpr("D")),
                            Property("cflags", ListExpr(<<StringExpr("-d1")>>))>>)

CcDefaultsD2 ==
    Module("cc_defaults", <<Property("name", StringExpr("D")),
                            Property("cflags", ListExpr(<<StringExpr("-d2")>>))>>)

RegisteringDefs ==
    {CcDefaultsD1, CcDefaultsD2, CcDefaultsDx, LibraryL, Assignment("x", OneString("x"), "=")}

RegisteringFiles ==
    {BpFile("/aosp/lib", defs, "") : defs \in SeqsUpTo(RegisteringDefs, MaxDefs)}

NextRegistering ==
    \/ NewConverter("x86_64")
    \/ \E file \in RegisteringFiles : ConvertFile(file, "")
    \/ TakeResult

SpecRegistering == Init /\ [][NextRegistering]_vars

-----------------------------------------------------------------------------
(* Properties of the registration. *)

IsCcDefaults(d) == IsModule(d) /\ d.type = "cc_defaults"

\* The cc_defaults of the file of this step whose evaluation fails.
FailedCcDefaults(d) == IsCcDefaults(d) /\ Fails(variables', d)

\* The places of the file's cc_defaults named name that evaluate.
Registering(defs, name) ==
    {i \in DOMAIN defs : /\ IsCcDefaults(defs[i]) /\ ~Fails(variables', defs[i])
                         /\ ModuleName(defs[i]) = name}

\* The modules of the file that evaluate and are no cc_defaults, evaluated.
EvaluatedConsumers(defs) ==
    LET consumers == SelectSeq(defs, LAMBDA d : /\ IsModule(d) /\ ~IsCcDefaults(d)
                                                /\ ~Fails(variables', d))
    IN  [i \in DOMAIN consumers |-> evaluate_module(variables', consumers[i])]

FailedDefaultsNotRegistered ==
    /\ Converted
    /\ bp_file.defs = <<CcDefaultsD1, CcDefaultsDx, LibraryL>>
    /\ variables["x"] = None
    /\ Len(result.errors) = 1
    /\ Len(result.elements) = 1
    /\ HasItem(result.elements[1].content.variables, "extra-cflags", "-d1")

\* The only cc_defaults named D fails on a new Converter: L's element has no flags
\* of it.
FailedDefaultsUnknown ==
    /\ Converted
    /\ bp_file.defs = <<CcDefaultsDx, LibraryL>>
    /\ "D" \notin DOMAIN defaults_registry
    /\ Len(result.errors) = 1
    /\ Len(result.elements) = 1
    /\ \A i \in DOMAIN result.elements[1].content.variables :
          result.elements[1].content.variables[i].name # "extra-cflags"

-----------------------------------------------------------------------------
(* The AST as the interpreter holds it. A dataclass instance and a Python    *)
(* list are objects with an address; a field holds a str or the address of   *)
(* an object; two fields that hold one address share the object, and an      *)
(* assignment to a field or an in-place change of a list is seen through     *)
(* both. heap is the sequence of the objects, an address a position in it.   *)

\* The list object with the addresses items.
ListObject(items) == [t |-> "list", items |-> items]

\* A new object: the heap with it, and its address.
Alloc(h, object) == [heap |-> Append(h, object), at |-> Len(h) + 1]

\* The addresses in the list at address list_at.
ItemsOf(h, list_at) == h[list_at].items

\* The Property objects in the list at list_at, as names with the address of the value.
PropertiesAt(h, list_at) ==
    [i \in DOMAIN ItemsOf(h, list_at) |->
        Property(h[ItemsOf(h, list_at)[i]].name, h[ItemsOf(h, list_at)[i]].value)]

\* A call on the heap returns the heap it leaves with an address, addresses or a dict,
\* or it raises; what follows a call in the code is reached when it returned.
Gave(r) == "heap" \in DOMAIN r

RECURSIVE New(_, _)
RECURSIVE NewAll(_, _, _)

\* The Parser's objects for the nodes es, one after the other.
NewAll(h, es, ats) ==
    IF es = <<>> THEN [heap |-> h, ats |-> ats]
    ELSE LET one == New(h, Head(es))
         IN  IF Gave(one) THEN NewAll(one.heap, Tail(es), Append(ats, one.at)) ELSE one

\* The Parser's objects for the Module, Property or Expression e: every node and
\* every list a new object.
New(h, e) ==
    IF "type" \in DOMAIN e
    THEN LET properties == NewAll(h, e.properties, <<>>)
             list == Alloc(properties.heap, ListObject(properties.ats))
         IN  Alloc(list.heap, [t |-> "Module", type |-> e.type, properties |-> list.at])
    ELSE IF "t" \notin DOMAIN e
    THEN LET value == New(h, e.value)
         IN  Alloc(value.heap, [t |-> "Property", name |-> e.name, value |-> value.at])
    ELSE IF e.t = "List"
    THEN LET values == NewAll(h, e.values, <<>>)
             list == Alloc(values.heap, ListObject(values.ats))
         IN  Alloc(list.heap, [t |-> "List", values |-> list.at])
    ELSE IF e.t = "Map"
    THEN LET properties == NewAll(h, e.properties, <<>>)
             list == Alloc(properties.heap, ListObject(properties.ats))
         IN  Alloc(list.heap, [t |-> "Map", properties |-> list.at])
    ELSE IF e.t = "Operator"
    THEN LET left == New(h, e.left)
             right == New(left.heap, e.right)
         IN  Alloc(right.heap, [t |-> "Operator", left |-> left.at, op |-> e.op,
                                right |-> right.at])
    ELSE Alloc(h, e)

\* The structure of the object at address a: what == of the dataclasses compares.
RECURSIVE Structure(_, _)
Structure(h, a) ==
    LET object == h[a]
    IN  IF object.t = "Module"
        THEN Module(object.type, [i \in DOMAIN ItemsOf(h, object.properties) |->
                                     Structure(h, ItemsOf(h, object.properties)[i])])
        ELSE IF object.t = "Property"
        THEN Property(object.name, Structure(h, object.value))
        ELSE IF object.t = "List"
        THEN ListExpr([i \in DOMAIN ItemsOf(h, object.values) |->
                          Structure(h, ItemsOf(h, object.values)[i])])
        ELSE IF object.t = "Map"
        THEN MapExpr([i \in DOMAIN ItemsOf(h, object.properties) |->
                         Structure(h, ItemsOf(h, object.properties)[i])])
        ELSE IF object.t = "Operator"
        THEN OperatorExpr(Structure(h, object.left), object.op, Structure(h, object.right))
        ELSE object

\* [ast.Property(name=k, value=v) for k, v in d.items()]
RECURSIVE NewProperties(_, _, _)
NewProperties(h, d, ats) ==
    IF d = <<>> THEN [heap |-> h, ats |-> ats]
    ELSE LET property == Alloc(h, [t |-> "Property", name |-> Head(d).name,
                                   value |-> Head(d).value])
         IN  IF Gave(property)
             THEN NewProperties(property.heap, Tail(d), Append(ats, property.at))
             ELSE property

-----------------------------------------------------------------------------
(* evaluator.py on the heap *)

\* add_file_variables, lines 24 to 34, for the Assignment of name whose value is at
\* value_at.
AssignAt(h, scope, name, assigner, value_at) ==
    IF assigner = "+=" /\ name \in DOMAIN scope
    THEN LET operator == Alloc(h, [t |-> "Operator", left |-> scope[name], op |-> "+",
                                   right |-> value_at])
         IN  [heap |-> operator.heap,
              variables |-> [k \in DOMAIN scope |-> IF k = name THEN operator.at
                                                    ELSE scope[k]]]
    ELSE [heap |-> h,
          variables |-> [k \in DOMAIN scope \cup {name} |-> IF k = name THEN value_at
                                                            ELSE scope[k]]]

\* evaluate, lines 50 to 58, for the evaluated operands at left and right.
fold_operator_at(h, op, left, right) ==
    IF op = "+" /\ h[left].t = "List" /\ h[right].t = "List"
    THEN LET values == Alloc(h, ListObject(ItemsOf(h, h[left].values)
                                           \o ItemsOf(h, h[right].values)))
         IN  Alloc(values.heap, [t |-> "List", values |-> values.at])
    ELSE IF op = "+" /\ h[left].t = "String" /\ h[right].t = "String"
    THEN Alloc(h, StringExpr(h[left].value \o h[right].value))
    ELSE Alloc(h, [t |-> "Operator", left |-> left, op |-> op, right |-> right])

RECURSIVE evaluate_at(_, _, _, _)
RECURSIVE EvaluateAllAt(_, _, _, _, _)

\* [self.evaluate(v) for v in ...] over the objects at the addresses of todo.
EvaluateAllAt(h, scope, todo, seen, ats) ==
    IF todo = <<>> THEN [heap |-> h, ats |-> ats]
    ELSE LET value == evaluate_at(h, scope, Head(todo), seen)
         IN  IF ~Gave(value) THEN value
             ELSE EvaluateAllAt(value.heap, scope, Tail(todo), seen, Append(ats, value.at))

\* Evaluator.evaluate(expr) for the expression at address a.
evaluate_at(h, scope, a, seen) ==
    LET expr == h[a]
    IN  IF expr.t \in {"String", "Bool", "Int"} THEN [heap |-> h, at |-> a]
        ELSE IF expr.t = "VariableRef"
        THEN IF expr.name \notin DOMAIN scope THEN EvalError(expr.name)
             ELSE IF expr.name \in seen THEN RecursionError
             ELSE evaluate_at(h, scope, scope[expr.name], seen \cup {expr.name})
        ELSE IF expr.t = "Operator"
        THEN LET left == evaluate_at(h, scope, expr.left, seen)
                 right == evaluate_at(left.heap, scope, expr.right, seen)
             IN  IF ~Gave(left) THEN left
                 ELSE IF ~Gave(right) THEN right
                 ELSE fold_operator_at(right.heap, expr.op, left.at, right.at)
        ELSE IF expr.t = "List"
        THEN LET values == EvaluateAllAt(h, scope, ItemsOf(h, expr.values), seen, <<>>)
                 list == Alloc(values.heap, ListObject(values.ats))
             IN  IF ~Gave(values) THEN values
                 ELSE Alloc(list.heap, [t |-> "List", values |-> list.at])
        ELSE IF expr.t = "Map"
        THEN LET own == PropertiesAt(h, expr.properties)
                 values == EvaluateAllAt(h, scope, [i \in DOMAIN own |-> own[i].value],
                                         seen, <<>>)
                 properties == NewProperties(values.heap,
                                             [i \in DOMAIN own |->
                                                 Property(own[i].name, values.ats[i])], <<>>)
                 list == Alloc(properties.heap, ListObject(properties.ats))
             IN  IF ~Gave(values) THEN values
                 ELSE Alloc(list.heap, [t |-> "Map", properties |-> list.at])
        ELSE [heap |-> h, at |-> a]

\* Evaluator.evaluate_module(module) for the Module at address a.
evaluate_module_at(h, scope, a) ==
    LET own == PropertiesAt(h, h[a].properties)
        values == EvaluateAllAt(h, scope, [i \in DOMAIN own |-> own[i].value], {}, <<>>)
        properties == NewProperties(values.heap,
                                    [i \in DOMAIN own |-> Property(own[i].name, values.ats[i])],
                                    <<>>)
        list == Alloc(properties.heap, ListObject(properties.ats))
    IN  IF ~Gave(values) THEN values
        ELSE Alloc(list.heap, [t |-> "Module", type |-> h[a].type, properties |-> list.at])

-----------------------------------------------------------------------------
(* defaults.py on the heap. A dict is the sequence of its items in insertion *)
(* order, each a name with the address of its value.                         *)

RECURSIVE merge_values_at(_, _, _)
RECURSIVE MergeMapAt(_, _, _)

\* The loop of _merge_values over overlay.properties, on the dict merged.
MergeMapAt(h, merged, ps) ==
    IF ps = <<>> THEN [heap |-> h, dict |-> merged]
    ELSE LET prop == Head(ps)
             value == merge_values_at(h, DictGet(merged, prop.name), prop.value)
         IN  IF DictHas(merged, prop.name) /\ Gave(value)
             THEN MergeMapAt(value.heap, DictSet(merged, prop.name, value.at), Tail(ps))
             ELSE MergeMapAt(h, DictSet(merged, prop.name, prop.value), Tail(ps))

\* A slip in line 110: base.values += overlay.values, and base returned.
merge_values_in_place(h, base, overlay) ==
    IF h[base].t = "List" /\ h[overlay].t = "List"
    THEN [heap |-> [h EXCEPT ![h[base].values] =
                       ListObject(@.items \o ItemsOf(h, h[overlay].values))],
          at |-> base]
    ELSE IF h[base].t = "Map" /\ h[overlay].t = "Map"
    THEN LET merged == MergeMapAt(h, DictOf(PropertiesAt(h, h[base].properties)),
                                  PropertiesAt(h, h[overlay].properties))
             properties == NewProperties(merged.heap, merged.dict, <<>>)
             list == Alloc(properties.heap, ListObject(properties.ats))
         IN  Alloc(list.heap, [t |-> "Map", properties |-> list.at])
    ELSE [heap |-> h, at |-> overlay]

\* _merge_values(base, overlay) for the values at the two addresses.
merge_values_at(h, base, overlay) ==
    IF h[base].t = "List" /\ h[overlay].t = "List"
    THEN LET values == Alloc(h, ListObject(ItemsOf(h, h[base].values)
                                           \o ItemsOf(h, h[overlay].values)))
         IN  Alloc(values.heap, [t |-> "List", values |-> values.at])
    ELSE IF h[base].t = "Map" /\ h[overlay].t = "Map"
    THEN LET merged == MergeMapAt(h, DictOf(PropertiesAt(h, h[base].properties)),
                                  PropertiesAt(h, h[overlay].properties))
             properties == NewProperties(merged.heap, merged.dict, <<>>)
             list == Alloc(properties.heap, ListObject(properties.ats))
         IN  Alloc(list.heap, [t |-> "Map", properties |-> list.at])
    ELSE [heap |-> h, at |-> overlay]

\* _merge_properties(target, properties), properties as names with addresses.
RECURSIVE merge_properties_at(_, _, _)
merge_properties_at(h, target, properties) ==
    IF properties = <<>> THEN [heap |-> h, dict |-> target]
    ELSE LET prop == Head(properties)
             value == merge_values_at(h, DictGet(target, prop.name), prop.value)
         IN  IF prop.name \in {"name", "defaults"}
             THEN merge_properties_at(h, target, Tail(properties))
             ELSE IF DictHas(target, prop.name) /\ Gave(value)
             THEN merge_properties_at(value.heap, DictSet(target, prop.name, value.at),
                                      Tail(properties))
             ELSE merge_properties_at(h, DictSet(target, prop.name, prop.value),
                                      Tail(properties))

RECURSIVE collect_defaults_at(_, _, _, _)
RECURSIVE CollectEachAt(_, _, _, _)

CollectEachAt(h, reg, names, st) ==
    IF names = <<>> THEN st
    ELSE CollectEachAt(h, reg, Tail(names), collect_defaults_at(h, reg, Head(names), st))

\* _collect_defaults: result holds the addresses of the registered modules.
collect_defaults_at(h, reg, name, st) ==
    IF name \in st.visited THEN st
    ELSE LET seen == [st EXCEPT !.visited = @ \cup {name}]
         IN  IF name \notin DOMAIN reg THEN seen
             ELSE LET nested == CollectEachAt(h, reg,
                                              NestedNames(Structure(h, reg[name])), seen)
                  IN  [nested EXCEPT !.result = Append(@, reg[name])]

\* for defaults_module in all_defaults: self._merge_properties(merged_props, ...)
RECURSIVE MergeAllAt(_, _, _)
MergeAllAt(h, merged, mods) ==
    IF mods = <<>> THEN [heap |-> h, dict |-> merged]
    ELSE LET next == merge_properties_at(h, merged, PropertiesAt(h, h[Head(mods)].properties))
         IN  IF Gave(next) THEN MergeAllAt(next.heap, next.dict, Tail(mods)) ELSE next

\* resolve, lines 51 to 54: the module's own properties, except defaults, merged over
\* the dict of the defaults' properties.
MergeOwnAt(h, a, merged) ==
    merge_properties_at(merged.heap, merged.dict,
                        SelectSeq(PropertiesAt(merged.heap, h[a].properties),
                                  LAMBDA p : p.name # "defaults"))

\* resolve, lines 57 to 66: the new Module of the merged properties, the name first.
NewModuleAt(h, a, own, final_props) ==
    LET named == PropertiesAt(own.heap, h[a].properties)
        name_prop == Alloc(final_props.heap,
                           [t |-> "Property", name |-> "name",
                            value |-> named[Min(PropIndices(named, "name"))].value])
        list == IF ~DictHas(own.dict, "name") /\ PropIndices(named, "name") # {}
                THEN Alloc(name_prop.heap, ListObject(<<name_prop.at>> \o final_props.ats))
                ELSE Alloc(final_props.heap, ListObject(final_props.ats))
    IN  Alloc(list.heap, [t |-> "Module", type |-> h[a].type, properties |-> list.at])

\* resolve, line 57: final_props, a new Property for every name of the dict.
FinalPropsAt(h, a, own) == NewModuleAt(h, a, own, NewProperties(own.heap, own.dict, <<>>))

\* DefaultsResolver.resolve(module) for the Module at address a.
resolve_at(h, reg, a) ==
    IF ReturnsUnchanged(Structure(h, a)) THEN [heap |-> h, at |-> a]
    ELSE FinalPropsAt(h, a,
             MergeOwnAt(h, a,
                 MergeAllAt(h, <<>>,
                     CollectEachAt(h, reg,
                                   extract_string_list(ModuleGet(Structure(h, a), "defaults")),
                                   [result |-> <<>>, visited |-> {}]).result)))

\* register_defaults, lines 24 to 27, for the Module at address a.
register_at(h, reg, a) ==
    LET name == ModuleName(Structure(h, a))
    IN  IF h[a].type = "cc_defaults" /\ ModuleHasName(Structure(h, a)) /\ name # ""
        THEN [k \in DOMAIN reg \cup {name} |-> IF k = name THEN a ELSE reg[k]]
        ELSE reg

-----------------------------------------------------------------------------
(* The calls on the heap. The caller parses a file, which also registers its *)
(* assignments, and then evaluates, registers and resolves the modules it    *)
(* holds in any order; what a call returns it holds as well.                 *)

\* The most modules of a parsed file, and the most modules the caller holds.
MaxParsed == 2

MaxHeld == 5

\* Parser.parse and add_file_variables for the definitions defs.
RECURSIVE ParseAt(_, _, _, _)
ParseAt(h, scope, defs, modules) ==
    IF defs = <<>> THEN [heap |-> h, variables |-> scope, held |-> modules]
    ELSE IF IsAssignment(Head(defs))
    THEN LET value == New(h, Head(defs).value)
             assigned == AssignAt(value.heap, scope, Head(defs).name, Head(defs).assigner,
                                  value.at)
         IN  IF Gave(assigned)
             THEN ParseAt(assigned.heap, assigned.variables, Tail(defs), modules)
             ELSE assigned
    ELSE LET parsed_module == New(h, Head(defs))
         IN  IF Gave(parsed_module)
             THEN ParseAt(parsed_module.heap, scope, Tail(defs),
                          Append(modules, parsed_module.at))
             ELSE parsed_module

\* original with the structure of the objects at the addresses ats it does not have.
Extended(h, ats) ==
    [a \in DOMAIN original \cup ats |->
        IF a \in DOMAIN original THEN original[a] ELSE Structure(h, a)]

\* The addresses of the sequence or dict f.
Addresses(f) == {f[k] : k \in DOMAIN f}

ParseObjects(defs) ==
    LET file == ParseAt(heap, variables_at, defs, <<>>)
    IN  /\ heap = <<>>
        /\ heap' = file.heap
        /\ variables_at' = file.variables
        /\ held' = file.held
        /\ original' = Extended(file.heap, Addresses(file.held) \cup Addresses(file.variables))
        /\ UNCHANGED registry_at
        /\ UNCHANGED <<resolver_vars, collect_vars, eval_vars, conv_vars>>

\* evaluate_module for the i-th module held; a call that raises changes nothing.
EvaluateHeld(i) ==
    LET call == evaluate_module_at(heap, variables_at, held[i])
    IN  /\ i \in DOMAIN held
        /\ Len(held) < MaxHeld
        /\ Gave(call)
        /\ heap' = call.heap
        /\ held' = Append(held, call.at)
        /\ original' = Extended(call.heap, {call.at})
        /\ UNCHANGED <<registry_at, variables_at>>
        /\ UNCHANGED <<resolver_vars, collect_vars, eval_vars, conv_vars>>

\* register_defaults([module]) for the i-th module held.
RegisterHeld(i) ==
    /\ i \in DOMAIN held
    /\ registry_at' = register_at(heap, registry_at, held[i])
    /\ registry_at' # registry_at
    /\ UNCHANGED <<heap, variables_at, held, original>>
    /\ UNCHANGED <<resolver_vars, collect_vars, eval_vars, conv_vars>>

\* resolve for the i-th module held.
ResolveHeld(i) ==
    LET call == resolve_at(heap, registry_at, held[i])
    IN  /\ i \in DOMAIN held
        /\ Len(held) < MaxHeld
        /\ call.at \notin Addresses(held)
        /\ heap' = call.heap
        /\ held' = Append(held, call.at)
        /\ original' = Extended(call.heap, {call.at})
        /\ UNCHANGED <<registry_at, variables_at>>
        /\ UNCHANGED <<resolver_vars, collect_vars, eval_vars, conv_vars>>

\* The process ends: its objects are gone.
DropObjects ==
    /\ heap # <<>>
    /\ heap' = <<>>
    /\ registry_at' = <<>>
    /\ variables_at' = <<>>
    /\ held' = <<>>
    /\ original' = <<>>
    /\ UNCHANGED <<resolver_vars, collect_vars, eval_vars, conv_vars>>

\* A cc_defaults with a list and a map, two consumers of it, one with a list and a
\* map of its own, and a module that adds to a variable.
DefaultsObject ==
    Module("cc_defaults",
           <<Property("name", StringExpr("D")),
             Property("cflags", ListExpr(<<StringExpr("-d")>>)),
             Property("arch", MapExpr(<<Property("x86", ListExpr(<<StringExpr("a")>>))>>))>>)

ConsumerObject ==
    Module("cc_library_static",
           <<Property("name", StringExpr("L")),
             Property("defaults", ListExpr(<<StringExpr("D")>>)),
             Property("cflags", ListExpr(<<StringExpr("-l")>>)),
             Property("arch", MapExpr(<<Property("x86", ListExpr(<<StringExpr("b")>>))>>))>>)

BareConsumerObject ==
    Module("cc_library_static",
           <<Property("name", StringExpr("K")),
             Property("defaults", ListExpr(<<StringExpr("D")>>))>>)

AddingObject ==
    Module("cc_library_static",
           <<Property("name", StringExpr("M")),
             Property("srcs", OperatorExpr(VariableRef("x"), "+",
                                           ListExpr(<<StringExpr("m.c")>>)))>>)

\* The files: no assignment, x = ["x1"], or x = ["x1"] and x += ["x2"], and then up
\* to MaxParsed modules.
ParsedAssignments ==
    {<<>>, <<Assignment("x", OneString("x"), "=")>>,
     <<Assignment("x", OneString("x"), "="), Assignment("x", TwoString("x"), "+=")>>}

ParsedModules == {DefaultsObject, ConsumerObject, BareConsumerObject, AddingObject}

ParsedDefs ==
    {assignments \o modules : assignments \in ParsedAssignments,
                              modules \in SeqsUpTo(ParsedModules, MaxParsed) \ {<<>>}}

NextObjects ==
    \/ \E defs \in ParsedDefs : ParseObjects(defs)
    \/ \E i \in 1..MaxHeld : EvaluateHeld(i)
    \/ \E i \in 1..MaxHeld : RegisterHeld(i)
    \/ \E i \in 1..MaxHeld : ResolveHeld(i)
    \/ DropObjects

SpecObjects == Init /\ [][NextObjects]_vars

-----------------------------------------------------------------------------
(* Properties of the calls on the heap. *)

\* The registry and the scope of the heap as the structures they hold.
RegistryStructure == [n \in DOMAIN registry_at |-> Structure(heap, registry_at[n])]

VariablesStructure ==
    [n \in Identifiers |-> IF n \in DOMAIN variables_at
                           THEN Structure(heap, variables_at[n]) ELSE None]

\* The address of the value of the Module at a under key (key is one of its names).
ValueAt(h, a, key) == PropsGet(PropertiesAt(h, h[a].properties), key)

HasProperty(h, a, key) == PropIndices(PropertiesAt(h, h[a].properties), key) # {}

\* C26: resolve and evaluate_module change none of their inputs: after any calls,
\* every module of the registry, every module passed in (parsed, or returned by an
\* earlier call) and every expression bound in the scope has the structure it had
\* when the caller first held it.
C26_InputsNeverMutated ==
    \A a \in DOMAIN original : Structure(heap, a) = original[a]

\* No call changes an object: the heap only grows, until the process ends.
ObjectsKept ==
    [][heap' # <<>> => /\ Len(heap') >= Len(heap)
                       /\ \A a \in DOMAIN heap : heap'[a] = heap[a]]_vars

\* The calls on the heap return the structures the calls on values return.
ObjectsAsValues ==
    [][\A i \in 1..MaxHeld :
          /\ ResolveHeld(i) => Structure(heap', held'[Len(held')])
                                  = resolve(RegistryStructure, Structure(heap, held[i]))
          /\ EvaluateHeld(i) => Structure(heap', held'[Len(held')])
                                   = evaluate_module(VariablesStructure,
                                                     Structure(heap, held[i]))]_vars

\* resolve merged the list of the registered D and the list of L into a new list
\* that holds the String object of D's list; D's list is as it was.
C26_Witness ==
    /\ "D" \in DOMAIN registry_at
    /\ ModuleGet(Structure(heap, registry_at["D"]), "cflags") = ListExpr(<<StringExpr("-d")>>)
    /\ \E a \in Addresses(held) :
          /\ ModuleName(Structure(heap, a)) = "L"
          /\ ModuleGet(Structure(heap, a), "cflags")
                = ListExpr(<<StringExpr("-d"), StringExpr("-l")>>)
          /\ heap[ValueAt(heap, a, "cflags")].values
                # heap[ValueAt(heap, registry_at["D"], "cflags")].values
          /\ ItemsOf(heap, heap[ValueAt(heap, a, "cflags")].values)[1]
                = ItemsOf(heap, heap[ValueAt(heap, registry_at["D"], "cflags")].values)[1]

\* resolve gave K the List object of the registered D: one object under two modules.
ValueShared ==
    /\ "D" \in DOMAIN registry_at
    /\ \E a \in Addresses(held) :
          /\ ModuleName(Structure(heap, a)) = "K"
          /\ HasProperty(heap, a, "cflags")
          /\ ValueAt(heap, a, "cflags") = ValueAt(heap, registry_at["D"], "cflags")

\* evaluate_module added to x, which is bound to the sum of two lists: the bound
\* expression is as it was.
BoundSumEvaluated ==
    /\ "x" \in DOMAIN variables_at
    /\ Structure(heap, variables_at["x"]) = OperatorExpr(OneString("x"), "+", TwoString("x"))
    /\ \E a \in Addresses(held) :
          ModuleGet(Structure(heap, a), "srcs")
             = ListExpr(<<StringExpr("x1"), StringExpr("x2"), StringExpr("m.c")>>)

====
